---- MODULE Spec2Model ----
(***************************************************************************)
(* A model of NetMirage's topology setup core: the IPv4 primitives, the    *)
(* avoid-list address iterator, the subnet fragmenter and the MAC counter  *)
(* of src/common/lib/ip.c, and the GraphML parser and the setupGraphML     *)
(* orchestrator of setup.c / graphml.c (src/unnamed/part_000).             *)
(*                                                                         *)
(* Addresses are modelled in host order (every ntohl/htonl of the source   *)
(* is paired with its inverse) and the 32-bit address space is scaled to   *)
(* AddrBits bits: a prefix length ranges over 0..AddrBits and the width of *)
(* `unsigned int` (the type of the literal 1U) is AddrBits as well, as it  *)
(* is 32 for both in the source.                                           *)
(***************************************************************************)
EXTENDS Integers, Sequences, FiniteSets, TLC

\* ------------------------------------------------------------------ bounds

\* Width of an IPv4 address in the model (32 in the source).
AddrBits == 4

\* Largest count handed to macNextAddrs, and the calls made on one counter.
MaxMacCount == 3

MaxMacCalls == 2

\* Longest avoid list handed to ip4NewIter.
MaxAvoid == 2

\* Largest fragment count handed to ip4FragmentSubnet, beyond the parent size.
ExtraFragments == 1

\* Most edge nodes configured, and most records in a document read by setupGraphML.
MaxEdgeNodes == 3

MaxDocLen == 3

\* Largest client count whose edge capacities are computed.
MaxClients == 12

\* Nodes and edge nodes of the topologies taken through the assignment loop.
MaxAssignNodes == 5

MaxAssignEdges == 3

\* Nodes and links of the topologies taken through the route loops.
MaxRouteNodes == 3

MaxRouteLinks == 3

\* Start tags, open elements and pieces of character data of the documents parsed.
MaxElements == 6

MaxXmlDepth == 6

MaxPieces == 2

\* ------------------------------------------------------------ basic values

\* A NULL pointer.
NULL == [null |-> TRUE]

Pow2(n) == 2 ^ n

AddrSpace == Pow2(AddrBits)

Addrs == 0 .. (AddrSpace - 1)

RECURSIVE BitOr(_, _)
BitOr(a, b) ==
    IF a = 0 THEN b
    ELSE IF b = 0 THEN a
    ELSE (IF a % 2 = 1 \/ b % 2 = 1 THEN 1 ELSE 0) + 2 * BitOr(a \div 2, b \div 2)

RECURSIVE BitAnd(_, _)
BitAnd(a, b) ==
    IF a = 0 \/ b = 0 THEN 0
    ELSE (IF a % 2 = 1 /\ b % 2 = 1 THEN 1 ELSE 0) + 2 * BitAnd(a \div 2, b \div 2)

\* floor(log2(n)) for n >= 1: llrint(log2(x)) under FE_DOWNWARD.
RECURSIVE FloorLog2(_)
FloorLog2(n) == IF n <= 1 THEN 0 ELSE 1 + FloorLog2(n \div 2)

\* ---------------------------------------------------------- IPv4 primitives

ip4HostMask(subnet) == Pow2(AddrBits - subnet.prefixLen) - 1

ip4SubnetMask(subnet) == (AddrSpace - 1) - ip4HostMask(subnet)

ip4SubnetStart(subnet) == subnet.addr

ip4SubnetEnd(subnet) == BitOr(subnet.addr, ip4HostMask(subnet))

ip4SubnetSize(subnet, excludeReserved) ==
    LET count == Pow2(AddrBits - subnet.prefixLen)
    IN  IF excludeReserved /\ count > 2 THEN count - 2 ELSE count

ip4SubnetHasReserved(subnet) == subnet.prefixLen <= AddrBits - 2

\* What ip4GetSubnet builds: the address masked to the prefix.
ip4GetSubnet(a, p) ==
    [addr |-> BitAnd(a, ip4SubnetMask([addr |-> a, prefixLen |-> p])), prefixLen |-> p]

\* Every canonical subnet of the address space.
Subnets == {ip4GetSubnet(a, p) : a \in Addrs, p \in 0 .. AddrBits}

\* --------------------------------------------------------- subnet fragmenter

\* The values a build can give the shift 1U << AddrBits, which C leaves undefined
\* (x86 and ARM64 mask the count and give 1, a 32-bit ARM register shift gives 0).
ShiftOverflowOutcomes == {0, 1}

\* 1U << k, computed in `unsigned int`; `ub` is the outcome of the undefined shift.
ShiftLeft1U(k, ub) == IF k < AddrBits THEN Pow2(k) ELSE ub

\* ip4FragmentSubnet, for fragmentCount >= 1. The result is NULL or the iterator.
ip4FragmentSubnet(subnet, fragmentCount, ub) ==
    LET parentSize == ip4SubnetSize(subnet, FALSE)
        idealFragmentSize == parentSize \div fragmentCount
        smallerPow2 == FloorLog2(idealFragmentSize)
        smallSize == ShiftLeft1U(smallerPow2, ub)
        totalSmallSize == smallSize * fragmentCount
        leftoverSize == parentSize - totalSmallSize
        \* llrint(leftover / 0.0) is llrint(+inf): an unspecified, here huge, value
        largeFragments == IF smallSize = 0 THEN AddrSpace ELSE leftoverSize \div smallSize
    IN  IF parentSize < fragmentCount THEN NULL
        ELSE [first |-> TRUE,
              currentAddr |-> subnet.addr,
              smallIncrement |-> smallSize,
              smallPrefixLen |-> (AddrBits - smallerPow2) % 256,
              largeFragmentsRemaining |-> largeFragments,
              fragmentsRemaining |-> fragmentCount]

\* An iterator that does not count its first fragment among the N.
ip4FragIterNextUncounted(fit) ==
    IF fit.fragmentsRemaining < 0 THEN [it |-> fit, ret |-> FALSE]
    ELSE IF fit.first THEN [it |-> [fit EXCEPT !.first = FALSE], ret |-> TRUE]
    ELSE [it |-> [fit EXCEPT !.currentAddr = @ + fit.smallIncrement,
                             !.fragmentsRemaining = @ - 1],
          ret |-> fit.fragmentsRemaining > 0]

\* ip4FragIterNext: the iterator after the call and the value returned.
ip4FragIterNext(fit) ==
    IF fit.fragmentsRemaining = 0 THEN [it |-> fit, ret |-> FALSE]
    ELSE IF fit.first THEN [it |-> [fit EXCEPT !.first = FALSE], ret |-> TRUE]
    ELSE LET isLarge == fit.largeFragmentsRemaining > 0
             nxt == [fit EXCEPT
                       !.largeFragmentsRemaining = IF isLarge THEN @ - 1 ELSE @,
                       !.currentAddr = @ + fit.smallIncrement * (IF isLarge THEN 2 ELSE 1),
                       !.fragmentsRemaining = @ - 1]
         IN  [it |-> nxt, ret |-> nxt.fragmentsRemaining > 0]

\* ip4FragIterSubnet: the current fragment (address cut to 32 bits, prefix to 8).
ip4FragIterSubnet(fit) ==
    [addr |-> fit.currentAddr % AddrSpace,
     prefixLen |-> (IF fit.largeFragmentsRemaining > 0
                    THEN fit.smallPrefixLen - 1 ELSE fit.smallPrefixLen) % 256]

\* ------------------------------------------------------- address iterator

\* ignoreRangeCompare: by start ascending, then by end descending.
ignoreRangeCompare(range1, range2) ==
    IF range1.start < range2.start THEN -1
    ELSE IF range1.start > range2.start THEN 1
    ELSE IF range1.end > range2.end THEN -1
    ELSE IF range1.end = range2.end THEN 0
    ELSE 1

RECURSIVE InsertRange(_, _)
InsertRange(r, sorted) ==
    IF sorted = <<>> THEN <<r>>
    ELSE IF ignoreRangeCompare(r, Head(sorted)) <= 0 THEN <<r>> \o sorted
    ELSE <<Head(sorted)>> \o InsertRange(r, Tail(sorted))

\* qsort(ignores, ..., &ignoreRangeCompare): ranges that compare equal are equal, so
\* the sorted array is unique.
RECURSIVE qsort(_)
qsort(ranges) == IF ranges = <<>> THEN <<>> ELSE InsertRange(Head(ranges), qsort(Tail(ranges)))

\* ip4NewIter; `currentIgnore` is ignores[currentIgnoreNum + 1].
ip4NewIter(subnet, excludeReserved, avoidSubnets) ==
    LET needToExclude == excludeReserved /\ ip4SubnetHasReserved(subnet)
        given == [i \in 1 .. Len(avoidSubnets) |->
                    [start |-> ip4SubnetStart(avoidSubnets[i]),
                     end |-> ip4SubnetEnd(avoidSubnets[i])]]
        reserved == IF needToExclude
                    THEN <<[start |-> ip4SubnetStart(subnet), end |-> ip4SubnetStart(subnet)],
                           [start |-> ip4SubnetEnd(subnet), end |-> ip4SubnetEnd(subnet)]>>
                    ELSE <<>>
        ignores == qsort(given \o reserved)
    IN  [currentAddr |-> ip4SubnetStart(subnet) - 1,
         finalAddr |-> ip4SubnetEnd(subnet),
         ignores |-> ignores,
         ignoreCount |-> Len(ignores),
         currentIgnoreNum |-> 0]

IGNORES_REMAIN(it) == it.currentIgnoreNum < it.ignoreCount

currentIgnore(it) == it.ignores[it.currentIgnoreNum + 1]

\* The do-while of ip4IterNext after its first increment: pass the ranges that end
\* before the current address.
RECURSIVE PassSkippedRanges(_)
PassSkippedRanges(it) ==
    IF IGNORES_REMAIN(it) /\ it.currentAddr > currentIgnore(it).end
    THEN PassSkippedRanges([it EXCEPT !.currentIgnoreNum = @ + 1])
    ELSE it

\* The while (true) loop of ip4IterNext.
RECURSIVE SkipIgnoredRanges(_)
SkipIgnoredRanges(it) ==
    LET insideIgnore == /\ IGNORES_REMAIN(it)
                        /\ it.currentAddr >= currentIgnore(it).start
                        /\ it.currentAddr <= currentIgnore(it).end
    IN  IF ~insideIgnore THEN it
        ELSE SkipIgnoredRanges(PassSkippedRanges(
                 [it EXCEPT !.currentAddr = currentIgnore(it).end + 1,
                            !.currentIgnoreNum = @ + 1]))

\* ip4IterNext: the iterator after the call and the value returned.
ip4IterNext(it) ==
    IF it.currentAddr >= it.finalAddr THEN [it |-> it, ret |-> FALSE]
    ELSE LET nxt == SkipIgnoredRanges([it EXCEPT !.currentAddr = @ + 1])
         IN  [it |-> nxt, ret |-> nxt.currentAddr <= nxt.finalAddr]

\* ip4IterAddr: the current address, cut to 32 bits.
ip4IterAddr(it) == it.currentAddr % AddrSpace

\* ------------------------------------------------------------ MAC generator

\* Octets of a MAC address.
MAC_ADDR_BYTES == 6

\* The carry loop of macNextAddr over octets i, i-1, ..., 1 (octets[i-1] in the source).
RECURSIVE IncrementFrom(_, _)
IncrementFrom(addr, i) ==
    IF i = 0 THEN [addr |-> addr, ret |-> FALSE]
    ELSE LET v == (addr[i] + 1) % 256
         IN  IF v # 0 THEN [addr |-> [addr EXCEPT ![i] = v], ret |-> TRUE]
             ELSE IncrementFrom([addr EXCEPT ![i] = 0], i - 1)

\* A counter that carries from the first octet up: the little-endian slip.
RECURSIVE IncrementUpFrom(_, _)
IncrementUpFrom(addr, i) ==
    IF i > MAC_ADDR_BYTES THEN [addr |-> addr, ret |-> FALSE]
    ELSE LET v == (addr[i] + 1) % 256
         IN  IF v # 0 THEN [addr |-> [addr EXCEPT ![i] = v], ret |-> TRUE]
             ELSE IncrementUpFrom([addr EXCEPT ![i] = 0], i + 1)

macNextAddrLittleEndian(addr) == IncrementUpFrom(addr, 1)

\* macNextAddr: the address after the call and the value returned.
macNextAddr(addr) == IncrementFrom(addr, MAC_ADDR_BYTES)

\* The loop of macNextAddrs from its i-th round on.
RECURSIVE FillBuffer(_, _, _, _)
FillBuffer(nextAddr, buffer, unwrapped, left) ==
    IF left = 0 THEN [addr |-> nextAddr, buffer |-> buffer, ret |-> unwrapped]
    ELSE LET r == macNextAddr(nextAddr)
         IN  FillBuffer(r.addr, Append(buffer, nextAddr), unwrapped /\ r.ret, left - 1)

\* macNextAddrs: the counter after the call, the buffer filled and the value returned.
macNextAddrs(nextAddr, count) == FillBuffer(nextAddr, <<>>, TRUE, count)

\* ------------------------------------------------------ double arithmetic

\* The rounding modes of <fenv.h> the source sets.
FE_TONEAREST == "FE_TONEAREST"

FE_DOWNWARD == "FE_DOWNWARD"

\* Bits of the significand of a double.
DBL_MANT_DIG == 53

\* The binary digits of n, most significant first (none for 0).
RECURSIVE IntToBits(_)
IntToBits(n) == IF n = 0 THEN <<>> ELSE Append(IntToBits(n \div 2), n % 2)

\* The number whose binary digits are the first n of bits.
RECURSIVE BitsToIntUpTo(_, _)
BitsToIntUpTo(bits, n) == IF n = 0 THEN 0 ELSE 2 * BitsToIntUpTo(bits, n - 1) + bits[n]

BitsToInt(bits) == BitsToIntUpTo(bits, Len(bits))

\* A double >= 0: significand bits m (most significant first, m[1] = 1, DBL_MANT_DIG of
\* them) and the exponent e of m[1]; the value is the sum of m[i] * 2^(e + 1 - i).
DoubleZero == [m |-> <<>>, e |-> 0]

\* bits + 1, for bits that are not all ones: the last 0 becomes 1, the ones after it 0.
IncBits(bits) ==
    LET last0 == CHOOSE k \in 1 .. Len(bits) :
                     bits[k] = 0 /\ \A j \in (k + 1) .. Len(bits) : bits[j] = 1
    IN  [k \in 1 .. Len(bits) |-> IF k < last0 THEN bits[k] ELSE IF k = last0 THEN 1 ELSE 0]

\* The double nearest, under the rounding mode, to the exact value with digits `bits`
\* (first digit 1, of weight 2^exp) followed, if `rest`, by further nonzero digits.
RoundToDouble(bits, exp, rest, mode) ==
    LET n == Len(bits)
        keep == SubSeq(bits, 1, DBL_MANT_DIG)
        sticky == rest \/ \E i \in (DBL_MANT_DIG + 2) .. n : bits[i] = 1
        up == /\ mode = FE_TONEAREST
              /\ bits[DBL_MANT_DIG + 1] = 1
              /\ (sticky \/ keep[DBL_MANT_DIG] = 1)
    IN  IF n <= DBL_MANT_DIG
        THEN [m |-> bits \o [i \in 1 .. (DBL_MANT_DIG - n) |-> 0], e |-> exp]
        ELSE IF ~up THEN [m |-> keep, e |-> exp]
        ELSE IF \A i \in 1 .. DBL_MANT_DIG : keep[i] = 1
        THEN [m |-> <<1>> \o [i \in 1 .. (DBL_MANT_DIG - 1) |-> 0], e |-> exp + 1]
        ELSE [m |-> IncBits(keep), e |-> exp]

\* The w binary digits of v < 2^w, most significant first.
WordBits(v, w) == [j \in 1 .. w |-> (v \div Pow2(w - j)) % 2]

\* At least k further quotient digits of r / d for a remainder r < d, produced w at a
\* time by long division, and the remainder left.
RECURSIVE DivDigits(_, _, _, _)
DivDigits(r, d, k, w) ==
    IF k <= 0 THEN [bits |-> <<>>, r |-> r]
    ELSE LET rest == DivDigits((r * Pow2(w)) % d, d, k - w, w)
         IN  [bits |-> WordBits((r * Pow2(w)) \div d, w) \o rest.bits, r |-> rest.r]

\* The least k with a * 2^k >= d.
RECURSIVE ShiftsToReach(_, _)
ShiftsToReach(a, d) == IF a >= d THEN 0 ELSE 1 + ShiftsToReach(2 * a, d)

\* (double)a / (double)d for integers a >= 0, d >= 1, under the rounding mode.
DoubleDiv(a, d, mode) ==
    IF a = 0 THEN DoubleZero
    ELSE LET k == ShiftsToReach(a, d)
             num == a * Pow2(k)
             ibits == IntToBits(num \div d)
             frac == DivDigits(num % d, d, DBL_MANT_DIG + 1 - Len(ibits), 8)
         IN  RoundToDouble(ibits \o frac.bits, Len(ibits) - 1 - k, frac.r # 0, mode)

\* The digits of (the first n digits of bits) * i + carry, by long multiplication,
\* w digits at a time from the least significant end.
RECURSIVE MulDigits(_, _, _, _, _)
MulDigits(bits, i, n, carry, w) ==
    IF n = 0 THEN IntToBits(carry)
    ELSE LET k == IF n < w THEN n ELSE w
             v == BitsToInt(SubSeq(bits, n - k + 1, n)) * i + carry
         IN  MulDigits(bits, i, n - k, v \div Pow2(k), w) \o WordBits(v % Pow2(k), k)

\* x * (double)i for a double x and an integer i >= 0, under the rounding mode.
DoubleMulInt(x, i, mode) ==
    IF x.m = <<>> \/ i = 0 THEN DoubleZero
    ELSE LET prod == MulDigits(x.m, i, Len(x.m), 0, 8)
         IN  RoundToDouble(prod, x.e + (Len(prod) - DBL_MANT_DIG), FALSE, mode)

\* rint-like rounding of the marker: halfway cases to the even integer.
roundHalfEven(x) ==
    IF x.m = <<>> \/ x.e < -1 THEN 0
    ELSE IF x.e = -1
    THEN (IF \E i \in 2 .. DBL_MANT_DIG : x.m[i] = 1 THEN 1 ELSE 0)
    ELSE LET whole == BitsToInt(SubSeq(x.m, 1, x.e + 1))
             above == \E i \in (x.e + 3) .. DBL_MANT_DIG : x.m[i] = 1
         IN  IF x.m[x.e + 2] = 1 /\ (above \/ whole % 2 = 1) THEN whole + 1 ELSE whole

\* round(x) of <math.h>: to the nearest integer, halfway cases away from zero,
\* whatever the rounding mode. The result is integral and modelled as an integer.
round(x) ==
    IF x.m = <<>> \/ x.e < -1 THEN 0
    ELSE IF x.e = -1 THEN 1
    ELSE BitsToInt(SubSeq(x.m, 1, x.e + 1)) + x.m[x.e + 2]

\* ------------------------------------------------- external collaborators

\* Macs in the block of a client node and in the block of a link (work.h).
NEEDED_MACS_CLIENT == 2

NEEDED_MACS_LINK == 2

\* What a worker call returns: 0, or a nonzero error code.
WorkResults == {0, 1}

\* rpNewPlanner: a planner for nodeCount nodes, no weight set.
rpNewPlanner(nodeCount) == [nodeCount |-> nodeCount, weights |-> <<>>, planned |-> FALSE]

\* rpSetWeight on an allocated planner: the weight of the directed link from -> to.
rpSetWeight(planner, from, to, weight) ==
    [planner EXCEPT !.weights =
        [p \in (DOMAIN @) \cup {<<from, to>>} |-> IF p = <<from, to>> THEN weight ELSE @[p]]]

\* rpPlanRoutes.
rpPlanRoutes(planner) == [planner EXCEPT !.planned = TRUE]

\* The simple paths of the weighted graph that lead from `path` on to `to`.
RECURSIVE PathsFrom(_, _, _)
PathsFrom(planner, path, to) ==
    LET last == path[Len(path)]
        onward == {n \in 0 .. (planner.nodeCount - 1) :
                      /\ <<last, n>> \in DOMAIN planner.weights
                      /\ \A i \in 1 .. Len(path) : path[i] # n}
    IN  IF last = to THEN {path}
        ELSE UNION {PathsFrom(planner, Append(path, n), to) : n \in onward}

RECURSIVE PathWeight(_, _)
PathWeight(planner, path) ==
    IF Len(path) < 2 THEN 0
    ELSE planner.weights[<<path[1], path[2]>>] + PathWeight(planner, Tail(path))

\* rpGetRoute: the shortest paths from start to end; none when end is unreachable.
rpGetRoute(planner, start, end) ==
    LET paths == PathsFrom(planner, <<start>>, end)
    IN  {p \in paths : \A q \in paths : PathWeight(planner, p) <= PathWeight(planner, q)}

\* --------------------------------------------------- setup: GraphML callbacks

\* No reserved subnet at all.
reservedSubnetsNone == <<>>

\* The subnets setupGraphML always keeps interface addresses out of: 0.0.0.0/8,
\* 127.0.0.0/8 and 255.255.255.255/32, scaled to the model's address width.
reservedSubnets ==
    <<ip4GetSubnet(0, AddrBits - 1),
      ip4GetSubnet(AddrSpace \div 2 - 1, AddrBits - 1),
      ip4GetSubnet(AddrSpace - 1, AddrBits)>>

\* The gmlContext of setupGraphML after its initialisers.
NewContext(params) ==
    [finishedNodes |-> FALSE,
     ignoreNodes |-> FALSE,
     ignoreEdges |-> FALSE,
     nodeStates |-> <<>>,
     nodeCount |-> 0,
     clientNodes |-> 0,
     gmlToState |-> <<>>,
     clientsPerEdge |-> DoubleZero,
     currentEdgeIdx |-> 0,
     currentEdgeClients |-> 0,
     clientIter |-> NULL,
     intfAddrIter |->
         ip4NewIter(ip4GetSubnet(0, 0), FALSE,
                    reservedSubnets \o [i \in 1 .. Len(params.edgeNodes) |->
                                           params.edgeNodes[i].vsubnet]),
     macAddrIter |-> macNextAddr([i \in 1 .. MAC_ADDR_BYTES |-> 0]).addr,
     routes |-> NULL]

\* The state the callbacks work on: the context, the log of worker and planner calls,
\* the floating-point rounding mode, and whether the process has been killed.
World(ctx, calls, fenv) == [ctx |-> ctx, calls |-> calls, fenv |-> fenv, crashed |-> FALSE]

Call(w, call) == [w EXCEPT !.calls = Append(@, call)]

\* gmlGenerateIp, called with *addrExhausted false.
gmlGenerateIp(ctx) ==
    LET Generated(r) == [ctx |-> [ctx EXCEPT !.intfAddrIter = r.it],
                         addrExhausted |-> ~r.ret,
                         addr |-> IF r.ret THEN ip4IterAddr(r.it) ELSE NULL]
    IN  Generated(ip4IterNext(ctx.intfAddrIter))

\* A lookup that registers the name of a node record even when it is known.
gmlNameToStateAlwaysNew(ctx, name, node) ==
    LET index == ctx.nodeCount
        Registered(g) ==
            IF g.addrExhausted THEN [ctx |-> g.ctx, ok |-> FALSE, id |-> NULL]
            ELSE [ctx |-> [g.ctx EXCEPT
                             !.nodeCount = @ + 1,
                             !.nodeStates = Append(@, [addr |-> g.addr,
                                                       isClient |-> node.client,
                                                       clientSubnet |-> NULL,
                                                       clientMacs |-> NULL]),
                             !.gmlToState = [n \in (DOMAIN @) \cup {name} |->
                                                IF n = name THEN index ELSE @[n]]],
                  ok |-> TRUE,
                  id |-> index]
    IN  IF node # NULL THEN Registered(gmlGenerateIp(ctx))
        ELSE IF name \in DOMAIN ctx.gmlToState
        THEN [ctx |-> ctx, ok |-> TRUE, id |-> ctx.gmlToState[name]]
        ELSE [ctx |-> ctx, ok |-> FALSE, id |-> NULL]

\* gmlNameToState: `node` is NULL or the record of the node to register.
gmlNameToState(ctx, name, node) ==
    LET index == ctx.nodeCount
        Registered(g) ==
            IF g.addrExhausted THEN [ctx |-> g.ctx, ok |-> FALSE, id |-> NULL]
            ELSE [ctx |-> [g.ctx EXCEPT
                             !.nodeCount = @ + 1,
                             !.nodeStates = Append(@, [addr |-> g.addr,
                                                       isClient |-> node.client,
                                                       clientSubnet |-> NULL,
                                                       clientMacs |-> NULL]),
                             !.gmlToState = [n \in (DOMAIN @) \cup {name} |->
                                                IF n = name THEN index ELSE @[n]]],
                  ok |-> TRUE,
                  id |-> index]
    IN  IF name \in DOMAIN ctx.gmlToState
        THEN [ctx |-> ctx, ok |-> TRUE, id |-> ctx.gmlToState[name]]
        ELSE IF node = NULL THEN [ctx |-> ctx, ok |-> FALSE, id |-> NULL]
        ELSE Registered(gmlGenerateIp(ctx))

\* gmlAddNode: the world after the callback and the value it returns. `res` is what
\* workAddHost returns.
gmlAddNode(w, node, res) ==
    LET Added(found, macs) ==
            LET withMacs == [found.ctx EXCEPT
                               !.macAddrIter = macs.addr,
                               !.nodeStates[found.id + 1].clientMacs = macs.buffer]
                counted == IF node.client THEN [withMacs EXCEPT !.clientNodes = @ + 1]
                           ELSE found.ctx
                state == counted.nodeStates[found.id + 1]
            IN  IF ~found.ok THEN [w |-> [w EXCEPT !.ctx = found.ctx], ret |-> 1]
                ELSE IF node.client /\ ~macs.ret
                THEN [w |-> [w EXCEPT !.ctx = withMacs], ret |-> 1]
                ELSE [w |-> Call([w EXCEPT !.ctx = counted],
                                 [op |-> "workAddHost", id |-> found.id,
                                  addr |-> state.addr, macs |-> state.clientMacs,
                                  client |-> node.client]),
                      ret |-> res]
        Found(found) == Added(found, macNextAddrs(found.ctx.macAddrIter, NEEDED_MACS_CLIENT))
    IN  IF w.ctx.ignoreNodes THEN [w |-> w, ret |-> 0]
        ELSE IF w.ctx.finishedNodes THEN [w |-> w, ret |-> 1]
        ELSE Found(gmlNameToState(w.ctx, node.name, node))

\* What a call on a NULL route planner can do: the process is killed by the NULL
\* dereference, or the call returns without touching anything.
NullPlannerOutcomes == {"killed", "ignored"}

\* rpSetWeight(ctx->routes, ...) as gmlAddLink calls it, the planner possibly NULL.
SetWeight(w, from, to, weight, ub) ==
    IF w.crashed THEN w
    ELSE IF w.ctx.routes = NULL
    THEN (IF ub = "killed" THEN [w EXCEPT !.crashed = TRUE] ELSE w)
    ELSE Call([w EXCEPT !.ctx.routes = rpSetWeight(@, from, to, weight)],
              [op |-> "rpSetWeight", from |-> from, to |-> to, weight |-> weight])

\* A first-invocation block that does not mark the nodes as finished.
FinishNodesUnmarked(w, params, resScale) ==
    LET ctx == w.ctx
        scaled == Call(w, [op |-> "workEnsureSystemScaling",
                           links |-> ctx.nodeCount * ctx.nodeCount,
                           nodes |-> ctx.nodeCount, clients |-> ctx.clientNodes])
    IN  IF ctx.clientNodes < Len(params.edgeNodes)
        THEN [w |-> w, returns |-> TRUE, ret |-> 1]
        ELSE IF resScale # 0 THEN [w |-> scaled, returns |-> TRUE, ret |-> resScale]
        ELSE [w |-> Call([scaled EXCEPT
                            !.ctx.clientsPerEdge =
                                DoubleDiv(ctx.clientNodes, Len(params.edgeNodes), w.fenv),
                            !.ctx.routes = rpNewPlanner(ctx.nodeCount)],
                         [op |-> "rpNewPlanner", nodes |-> ctx.nodeCount]),
              returns |-> FALSE, ret |-> 0]

\* The first-invocation block of gmlAddLink, entered with finishedNodes false:
\* the world after it, whether gmlAddLink returns there, and the value it then returns.
FinishNodes(w, params, resScale) ==
    LET ctx == [w.ctx EXCEPT !.finishedNodes = TRUE]
        scaled == Call([w EXCEPT !.ctx = ctx],
                       [op |-> "workEnsureSystemScaling",
                        links |-> ctx.nodeCount * ctx.nodeCount,
                        nodes |-> ctx.nodeCount, clients |-> ctx.clientNodes])
    IN  IF ctx.clientNodes < Len(params.edgeNodes)
        THEN [w |-> [w EXCEPT !.ctx = ctx], returns |-> TRUE, ret |-> 1]
        ELSE IF resScale # 0 THEN [w |-> scaled, returns |-> TRUE, ret |-> resScale]
        ELSE [w |-> Call([scaled EXCEPT
                            !.ctx.clientsPerEdge =
                                DoubleDiv(ctx.clientNodes, Len(params.edgeNodes), w.fenv),
                            !.ctx.routes = rpNewPlanner(ctx.nodeCount)],
                         [op |-> "rpNewPlanner", nodes |-> ctx.nodeCount]),
              returns |-> FALSE, ret |-> 0]

\* A registration that draws the MAC block of the link before it looks at what the
\* lookups returned, and treats a link from a node to itself like any other.
RegisterLinkMacsFirst(w, link, resLink, ub) ==
    LET ctx == w.ctx
        Linked(source, target, macs) ==
            LET drawn == [w EXCEPT !.ctx.macAddrIter = macs.addr]
                added == Call(drawn, [op |-> "workAddLink",
                                      sourceId |-> source.id, targetId |-> target.id,
                                      sourceAddr |-> ctx.nodeStates[source.id + 1].addr,
                                      targetAddr |-> ctx.nodeStates[target.id + 1].addr,
                                      macs |-> macs.buffer])
            IN  IF ~macs.ret \/ ~source.ok \/ ~target.ok THEN [w |-> drawn, ret |-> 1]
                ELSE IF resLink # 0 THEN [w |-> added, ret |-> resLink]
                ELSE IF link.weight < 0 THEN [w |-> added, ret |-> 1]
                ELSE [w |-> SetWeight(SetWeight(added, source.id, target.id,
                                                link.weight, ub),
                                      target.id, source.id, link.weight, ub),
                      ret |-> 0]
    IN  Linked(gmlNameToState(ctx, link.sourceName, NULL),
               gmlNameToState(ctx, link.targetName, NULL),
               macNextAddrs(ctx.macAddrIter, NEEDED_MACS_LINK))

\* The rest of gmlAddLink: resolve both ends and register the link.
RegisterLink(w, link, resLink, ub) ==
    LET ctx == w.ctx
        Linked(source, target, macs) ==
            LET sourceState == ctx.nodeStates[source.id + 1]
                targetState == ctx.nodeStates[target.id + 1]
                drawn == [w EXCEPT !.ctx.macAddrIter = macs.addr]
                added == Call(drawn, [op |-> "workAddLink",
                                      sourceId |-> source.id, targetId |-> target.id,
                                      sourceAddr |-> sourceState.addr,
                                      targetAddr |-> targetState.addr,
                                      macs |-> macs.buffer])
            IN  IF ~source.ok \/ ~target.ok THEN [w |-> w, ret |-> 1]
                ELSE IF source.id = target.id
                THEN (IF sourceState.isClient
                      THEN [w |-> Call(w, [op |-> "workSetSelfLink", id |-> source.id]),
                            ret |-> resLink]
                      ELSE [w |-> w, ret |-> 0])
                ELSE IF ~macs.ret THEN [w |-> drawn, ret |-> 1]
                ELSE IF resLink # 0 THEN [w |-> added, ret |-> resLink]
                ELSE IF link.weight < 0 THEN [w |-> added, ret |-> 1]
                ELSE [w |-> SetWeight(SetWeight(added, source.id, target.id,
                                                link.weight, ub),
                                      target.id, source.id, link.weight, ub),
                      ret |-> 0]
    IN  Linked(gmlNameToState(ctx, link.sourceName, NULL),
               gmlNameToState(ctx, link.targetName, NULL),
               macNextAddrs(ctx.macAddrIter, NEEDED_MACS_LINK))

\* A link callback that acts during the first of two passes as well.
gmlAddLinkInEveryPass(w, link, params, resScale, resLink, ub) ==
    LET Rest(first) == IF first.returns THEN [w |-> first.w, ret |-> first.ret]
                       ELSE RegisterLink(first.w, link, resLink, ub)
    IN  IF w.ctx.finishedNodes THEN RegisterLink(w, link, resLink, ub)
        ELSE Rest(FinishNodes(w, params, resScale))

\* gmlAddLink: the world after the callback and the value it returns. `resScale` and
\* `resLink` are what workEnsureSystemScaling and workAddLink or workSetSelfLink
\* return, `ub` what a call on a NULL planner does.
gmlAddLink(w, link, params, resScale, resLink, ub) ==
    LET Rest(first) == IF first.returns THEN [w |-> first.w, ret |-> first.ret]
                       ELSE RegisterLink(first.w, link, resLink, ub)
    IN  IF w.ctx.ignoreEdges THEN [w |-> w, ret |-> 0]
        ELSE IF w.ctx.finishedNodes THEN RegisterLink(w, link, resLink, ub)
        ELSE Rest(FinishNodes(w, params, resScale))

\* --------------------------------------------- setup: client-to-edge assignment

\* The integer part of a double >= 0.
truncate(x) ==
    IF x.m = <<>> \/ x.e < 0 THEN 0 ELSE BitsToInt(SubSeq(x.m, 1, x.e + 1))

\* Markers cut to their integer part instead of rounded.
EdgeCapacityTruncated(clientsPerEdge, currentEdgeIdx, fenv) ==
    truncate(DoubleMulInt(clientsPerEdge, currentEdgeIdx + 1, fenv))
        - truncate(DoubleMulInt(clientsPerEdge, currentEdgeIdx, fenv))

\* The capacity gmlNextEdge computes for the edge currentEdgeIdx: the products are
\* rounded under the rounding mode in force when gmlNextEdge is entered.
EdgeCapacity(clientsPerEdge, currentEdgeIdx, fenv) ==
    LET prevMarker == round(DoubleMulInt(clientsPerEdge, currentEdgeIdx, fenv))
        nextMarker == round(DoubleMulInt(clientsPerEdge, currentEdgeIdx + 1, fenv))
    IN  nextMarker - prevMarker

\* An advance to the next edge that leaves the iterator of the last one allocated.
gmlNextEdgeKeeping(w, params, ub) ==
    LET ctx == w.ctx
        idx == IF ctx.clientIter = NULL THEN 0 ELSE ctx.currentEdgeIdx + 1
        Started(capacity, fit) ==
            LET fragmented ==
                    Call([w EXCEPT !.ctx.currentEdgeIdx = idx,
                                   !.ctx.currentEdgeClients = 0,
                                   !.ctx.clientIter = fit,
                                   !.fenv = IF fit = NULL THEN FE_TONEAREST
                                            ELSE FE_DOWNWARD],
                         [op |-> "ip4FragmentSubnet", edge |-> idx, count |-> capacity])
                First(first) == [w |-> [fragmented EXCEPT !.ctx.clientIter = first.it],
                                 ret |-> first.ret]
            IN  IF fit = NULL THEN [w |-> [fragmented EXCEPT !.crashed = TRUE], ret |-> FALSE]
                ELSE First(ip4FragIterNext(fit))
        Fragment(capacity) ==
            Started(capacity,
                    ip4FragmentSubnet(params.edgeNodes[idx + 1].vsubnet, capacity, ub))
    IN  IF ctx.clientIter # NULL /\ idx >= Len(params.edgeNodes)
        THEN [w |-> [w EXCEPT !.ctx.currentEdgeIdx = idx, !.ctx.clientIter = NULL],
              ret |-> FALSE]
        ELSE Fragment(EdgeCapacity(ctx.clientsPerEdge, idx, w.fenv))

\* gmlNextEdge: the world after the call and the value returned. `ub` is the outcome
\* of the undefined shift in ip4FragmentSubnet. Passing the NULL of ip4FragmentSubnet
\* to ip4FragIterNext dereferences it: the process is killed. The iterator of the edge
\* left is freed.
gmlNextEdge(w, params, ub) ==
    LET ctx == w.ctx
        idx == IF ctx.clientIter = NULL THEN 0 ELSE ctx.currentEdgeIdx + 1
        released == IF ctx.clientIter = NULL THEN w
                    ELSE Call(w, [op |-> "ip4FreeFragIter", edge |-> ctx.currentEdgeIdx])
        Started(capacity, fit) ==
            LET fragmented ==
                    Call([released EXCEPT !.ctx.currentEdgeIdx = idx,
                                   !.ctx.currentEdgeClients = 0,
                                   !.ctx.clientIter = fit,
                                   !.fenv = IF fit = NULL THEN FE_TONEAREST
                                            ELSE FE_DOWNWARD],
                         [op |-> "ip4FragmentSubnet", edge |-> idx, count |-> capacity])
                First(first) == [w |-> [fragmented EXCEPT !.ctx.clientIter = first.it],
                                 ret |-> first.ret]
            IN  IF fit = NULL THEN [w |-> [fragmented EXCEPT !.crashed = TRUE], ret |-> FALSE]
                ELSE First(ip4FragIterNext(fit))
        Fragment(capacity) ==
            Started(capacity,
                    ip4FragmentSubnet(params.edgeNodes[idx + 1].vsubnet, capacity, ub))
    IN  IF ctx.clientIter # NULL /\ idx >= Len(params.edgeNodes)
        THEN [w |-> [released EXCEPT !.ctx.currentEdgeIdx = idx, !.ctx.clientIter = NULL],
              ret |-> FALSE]
        ELSE Fragment(EdgeCapacity(ctx.clientsPerEdge, idx, w.fenv))

\* A request for the next client subnet that does not keep the step the iterator made.
gmlNextClientSubnetStale(w, params, ub) ==
    LET Subnet(edge) ==
            [w |-> edge.w,
             ret |-> edge.ret,
             subnet |-> IF edge.ret THEN ip4FragIterSubnet(edge.w.ctx.clientIter)
                        ELSE NULL]
        Advanced(advanced) ==
            IF advanced.ret
            THEN Subnet([w |-> w, ret |-> TRUE])
            ELSE Subnet(gmlNextEdge([w EXCEPT !.ctx.clientIter = advanced.it], params, ub))
    IN  IF w.ctx.clientIter = NULL THEN Subnet(gmlNextEdge(w, params, ub))
        ELSE Advanced(ip4FragIterNext(w.ctx.clientIter))

\* gmlNextClientSubnet: the world after the call, the value returned and the subnet.
gmlNextClientSubnet(w, params, ub) ==
    LET Subnet(edge) ==
            [w |-> edge.w,
             ret |-> edge.ret,
             subnet |-> IF edge.ret THEN ip4FragIterSubnet(edge.w.ctx.clientIter)
                        ELSE NULL]
        Advanced(advanced) ==
            IF advanced.ret
            THEN Subnet([w |-> [w EXCEPT !.ctx.clientIter = advanced.it], ret |-> TRUE])
            ELSE Subnet(gmlNextEdge([w EXCEPT !.ctx.clientIter = advanced.it], params, ub))
    IN  IF w.ctx.clientIter = NULL THEN Subnet(gmlNextEdge(w, params, ub))
        ELSE Advanced(ip4FragIterNext(w.ctx.clientIter))

\* ------------------------------------------------------------ GraphML parser

\* The bytes malloc'ed for a fresh xmlCharBuffer and for the data value buffer.
DefaultXmlBufferLen == 255

\* A copy of a libxml string, as xmlStrdup returns it; a pointer that holds no
\* string is NULL.
xmlStrdup(s) == [chars |-> s]

\* Character data reaches graphCharacters in pieces: the word "client", the digit
\* "1", the fraction ".5", and "~", which stands for a run of letters that together
\* with "client" fills the default buffer exactly.
Pieces == {"client", "1", ".5", "~"}

PieceLen(piece) == IF piece = "~" THEN DefaultXmlBufferLen - Len("client") ELSE Len(piece)

RECURSIVE ByteLen(_)
ByteLen(pieces) == IF pieces = <<>> THEN 0 ELSE PieceLen(Head(pieces)) + ByteLen(Tail(pieces))

\* The pieces held in the first n bytes of a buffer.
RECURSIVE TakeBytes(_, _)
TakeBytes(pieces, n) ==
    IF pieces = <<>> \/ PieceLen(Head(pieces)) > n THEN <<>>
    ELSE <<Head(pieces)>> \o TakeBytes(Tail(pieces), n - PieceLen(Head(pieces)))

\* The characters of a piece as far as the numeric conversions tell them apart.
PieceChars(piece) ==
    IF piece = "1" THEN <<"1">> ELSE IF piece = ".5" THEN <<".", "5">> ELSE <<"x">>

RECURSIVE Flatten(_)
Flatten(pieces) ==
    IF pieces = <<>> THEN <<>> ELSE PieceChars(Head(pieces)) \o Flatten(Tail(pieces))

DigitValue(c) == IF c = "1" THEN 1 ELSE IF c = "5" THEN 5 ELSE -1

\* The decimal digits at the head of a string.
RECURSIVE LeadingDigits(_)
LeadingDigits(cs) ==
    IF cs = <<>> \/ DigitValue(Head(cs)) < 0 THEN <<>>
    ELSE <<DigitValue(Head(cs))>> \o LeadingDigits(Tail(cs))

RECURSIVE DigitsToInt(_)
DigitsToInt(ds) ==
    IF ds = <<>> THEN 0 ELSE DigitsToInt(SubSeq(ds, 1, Len(ds) - 1)) * 10 + ds[Len(ds)]

\* strtod(value, NULL): the number the longest numeric prefix spells, 0 when there
\* is none; the rest of the string is not looked at. A number is its integer part
\* and the digits of its fraction.
strtod(value) ==
    LET cs == Flatten(value)
        whole == LeadingDigits(cs)
        rest == SubSeq(cs, Len(whole) + 1, Len(cs))
        frac == IF rest # <<>> /\ Head(rest) = "." THEN LeadingDigits(Tail(rest)) ELSE <<>>
    IN  [whole |-> DigitsToInt(whole), frac |-> frac]

\* strtoul(value, NULL, 10): the leading decimal digits, 0 when there are none.
strtoul(value) == DigitsToInt(LeadingDigits(Flatten(value)))

Zero == [whole |-> 0, frac |-> <<>>]

\* initGraphParserState on a GraphParserState of automatic storage: the fields it
\* does not set (NULL here) are not read before the handlers set them.
initGraphParserState(clientType) ==
    [mode |-> "GpInitial",
     clientType |-> clientType,
     unknownDepth |-> NULL,
     unknownMode |-> NULL,
     defaultUndirected |-> FALSE,
     nodeAttribs |-> [typeId |-> NULL, packetLossId |-> NULL,
                      bandwidthUpId |-> NULL, bandwidthDownId |-> NULL],
     edgeAttribs |-> [latencyId |-> NULL, packetLossId |-> NULL,
                      jitterId |-> NULL, queueLenId |-> NULL],
     dataKey |-> NULL,
     dataValue |-> <<>>,
     dataValueLen |-> 0,
     dataValueCap |-> DefaultXmlBufferLen,
     dataValueSize |-> DefaultXmlBufferLen,
     dataMode |-> NULL,
     node |-> NULL,
     link |-> NULL,
     dead |-> FALSE,
     killed |-> FALSE]

graphFatalError(state) == [state EXCEPT !.dead = TRUE]

\* An unknown element that is taken for a child of the root element wherever it is.
EnterUnknownAtTopLevel(state) ==
    [state EXCEPT !.unknownMode = "GpTopLevel", !.mode = "GpUnknown", !.unknownDepth = 0]

\* The tail of graphStartElement when `unknown` is set.
EnterUnknown(state) ==
    [state EXCEPT !.unknownMode = state.mode, !.mode = "GpUnknown", !.unknownDepth = 0]

\* The attribute names CHECK_SET_ATTR knows for nodes and for edges: the field that
\* records the key id and the attr.type classes accepted.
NodeKeys ==
    [type |-> [field |-> "typeId", accept |-> {"str"}],
     packetloss |-> [field |-> "packetLossId", accept |-> {"int", "float"}],
     bandwidthup |-> [field |-> "bandwidthUpId", accept |-> {"int", "float"}],
     bandwidthdown |-> [field |-> "bandwidthDownId", accept |-> {"int", "float"}]]

EdgeKeys ==
    [latency |-> [field |-> "latencyId", accept |-> {"int", "float"}],
     packetloss |-> [field |-> "packetLossId", accept |-> {"int", "float"}],
     jitter |-> [field |-> "jitterId", accept |-> {"int", "float"}],
     queue_len |-> [field |-> "queueLenId", accept |-> {"int"}]]

TypeClass(type) ==
    IF type \in {"int", "long"} THEN "int"
    ELSE IF type \in {"float", "double"} THEN "float"
    ELSE IF type = "string" THEN "str"
    ELSE "none"

\* The <key> branch of graphStartElement, before `unknown = true`.
RecordKey(state, atts) ==
    IF ~({"attr.name", "id", "attr.type", "for"} \subseteq DOMAIN atts) THEN state
    ELSE LET name == atts["attr.name"]
             class == TypeClass(atts["attr.type"])
             id == xmlStrdup(atts["id"])
         IN  IF atts["for"] = "node" /\ name \in DOMAIN NodeKeys
             THEN (IF class \in NodeKeys[name].accept
                   THEN [state EXCEPT !.nodeAttribs[NodeKeys[name].field] = id]
                   ELSE graphFatalError(state))
             ELSE IF atts["for"] = "edge" /\ name \in DOMAIN EdgeKeys
             THEN (IF class \in EdgeKeys[name].accept
                   THEN [state EXCEPT !.edgeAttribs[EdgeKeys[name].field] = id]
                   ELSE graphFatalError(state))
             ELSE state

GraphmlNamespace == "http://graphml.graphdrawing.org/xmlns"

\* graphStartElement: the parser state after the event.
graphStartElement(state, name, atts) ==
    IF state.dead THEN state
    ELSE IF state.mode = "GpUnknown" THEN [state EXCEPT !.unknownDepth = @ + 1]
    ELSE IF state.mode = "GpInitial"
    THEN (IF name # "graphml" THEN graphFatalError(state)
          ELSE IF "xmlns" \in DOMAIN atts /\ atts["xmlns"] # GraphmlNamespace
          THEN [graphFatalError(state) EXCEPT !.mode = "GpTopLevel"]
          ELSE [state EXCEPT !.mode = "GpTopLevel"])
    ELSE IF state.mode = "GpTopLevel"
    THEN (IF name = "key" THEN EnterUnknown(RecordKey(state, atts))
          ELSE IF name = "graph"
          THEN [state EXCEPT
                  !.defaultUndirected = IF "edgedefault" \in DOMAIN atts
                                        THEN atts["edgedefault"] = "undirected" ELSE @,
                  !.mode = "GpGraph"]
          ELSE EnterUnknown(state))
    ELSE IF state.mode = "GpGraph"
    THEN (IF name = "node"
          THEN (IF "id" \notin DOMAIN atts THEN graphFatalError(state)
                ELSE [state EXCEPT
                        !.node = [Id |-> atts["id"],
                                  Client |-> state.clientType = NULL,
                                  PacketLoss |-> Zero,
                                  BandwidthUp |-> Zero,
                                  BandwidthDown |-> Zero],
                        !.mode = "GpNode"])
          ELSE IF name = "edge"
          THEN LET undirected == IF "directed" \in DOMAIN atts
                                 THEN atts["directed"] = "false"
                                 ELSE state.defaultUndirected
               IN  IF "source" \notin DOMAIN atts \/ "target" \notin DOMAIN atts
                      \/ ~undirected
                   THEN graphFatalError(state)
                   ELSE [state EXCEPT
                           !.link = [SourceId |-> atts["source"],
                                     TargetId |-> atts["target"],
                                     Latency |-> Zero,
                                     PacketLoss |-> Zero,
                                     Jitter |-> Zero,
                                     QueueLen |-> 0],
                           !.mode = "GpEdge"]
          ELSE EnterUnknown(state))
    ELSE IF state.mode \in {"GpNode", "GpEdge"}
    THEN (IF name = "data"
          THEN [(IF "key" \in DOMAIN atts THEN [state EXCEPT !.dataKey = atts["key"]]
                 ELSE graphFatalError(state)) EXCEPT
                  !.dataValueLen = 0,
                  !.dataMode = state.mode,
                  !.mode = "GpData"]
          ELSE EnterUnknown(state))
    ELSE EnterUnknown(state)

\* Whether the key of the data element is the one recorded for an attribute.
IsKey(state, attribId) == attribId # NULL /\ state.dataKey = attribId.chars

\* The GpData branch of graphEndElement after the terminator is written: the value
\* is converted into the field its key names.
ApplyData(state) ==
    LET value == TakeBytes(state.dataValue, state.dataValueLen)
        na == state.nodeAttribs
        ea == state.edgeAttribs
        applied ==
            IF state.dataMode = "GpNode"
            THEN (IF IsKey(state, na.typeId)
                  THEN [state EXCEPT !.node.Client = (value = <<"client">>)]
                  ELSE IF IsKey(state, na.packetLossId)
                  THEN [state EXCEPT !.node.PacketLoss = strtod(value)]
                  ELSE IF IsKey(state, na.bandwidthUpId)
                  THEN [state EXCEPT !.node.BandwidthUp = strtod(value)]
                  ELSE IF IsKey(state, na.bandwidthDownId)
                  THEN [state EXCEPT !.node.BandwidthDown = strtod(value)]
                  ELSE state)
            ELSE IF state.dataMode = "GpEdge"
            THEN (IF IsKey(state, ea.latencyId)
                  THEN [state EXCEPT !.link.Latency = strtod(value)]
                  ELSE IF IsKey(state, ea.packetLossId)
                  THEN [state EXCEPT !.link.PacketLoss = strtod(value)]
                  ELSE IF IsKey(state, ea.jitterId)
                  THEN [state EXCEPT !.link.Jitter = strtod(value)]
                  ELSE IF IsKey(state, ea.queueLenId)
                  THEN [state EXCEPT !.link.QueueLen = strtoul(value)]
                  ELSE state)
            ELSE graphFatalError(state)
    IN  [applied EXCEPT !.mode = state.dataMode]

\* What the write of the terminator one byte past the end of the data value buffer
\* can do: land in the allocator's padding unnoticed, or corrupt the heap so that
\* the process is killed.
HeapOverflowOutcomes == {"unnoticed", "killed"}

\* graphEndElement: the parser state after the event and the callback it invoked,
\* NULL for none. `ub` is the outcome of a terminator written past the buffer.
graphEndElement(state, ub) ==
    IF state.dead THEN [state |-> state, callback |-> NULL]
    ELSE IF state.mode = "GpUnknown"
    THEN [state |-> IF state.unknownDepth = 0 THEN [state EXCEPT !.mode = state.unknownMode]
                    ELSE [state EXCEPT !.unknownDepth = @ - 1],
          callback |-> NULL]
    ELSE IF state.mode = "GpData"
    THEN [state |-> IF state.dataValueLen >= state.dataValueSize /\ ub = "killed"
                    THEN [state EXCEPT !.killed = TRUE]
                    ELSE ApplyData(state),
          callback |-> NULL]
    ELSE IF state.mode = "GpNode"
    THEN [state |-> [state EXCEPT !.mode = "GpGraph"],
          callback |-> [kind |-> "node", record |-> state.node]]
    ELSE IF state.mode = "GpEdge"
    THEN [state |-> [state EXCEPT !.mode = "GpGraph"],
          callback |-> [kind |-> "link", record |-> state.link]]
    ELSE IF state.mode = "GpGraph"
    THEN [state |-> [state EXCEPT !.mode = "GpTopLevel"], callback |-> NULL]
    ELSE IF state.mode = "GpTopLevel"
    THEN [state |-> [state EXCEPT !.mode = "GpUnknown", !.unknownDepth = 0,
                                  !.unknownMode = "GpUnknown"],
          callback |-> NULL]
    ELSE [state |-> graphFatalError(state), callback |-> NULL]

\* A characters handler that does not look at the dead flag.
graphCharactersWhenDead(state, ch, len) ==
    IF state.mode # "GpData" THEN state
    ELSE LET newSize == state.dataValueLen + len
             grown == IF newSize > state.dataValueCap
                      THEN [state EXCEPT !.dataValueCap = newSize * 2,
                                         !.dataValueSize = newSize * 2 + 1]
                      ELSE state
         IN  [grown EXCEPT
                !.dataValue = Append(TakeBytes(state.dataValue, state.dataValueLen), ch),
                !.dataValueLen = newSize]

\* graphCharacters, for the piece ch of len bytes.
graphCharacters(state, ch, len) ==
    IF state.dead \/ state.mode # "GpData" THEN state
    ELSE LET newSize == state.dataValueLen + len
             grown == IF newSize > state.dataValueCap
                      THEN [state EXCEPT !.dataValueCap = newSize * 2,
                                         !.dataValueSize = newSize * 2 + 1]
                      ELSE state
         IN  [grown EXCEPT
                !.dataValue = Append(TakeBytes(state.dataValue, state.dataValueLen), ch),
                !.dataValueLen = newSize]

\* --------------------------------------------------------------- variables

VARIABLES
    fragArgs,   \* the (subnet, fragmentCount) under fragmentation
    fragIt,     \* the ip4FragIter, NULL before ip4FragmentSubnet or when it failed
    fragOut,    \* the fragments read by ip4FragIterSubnet after each true return
    fragRet,    \* the values returned by ip4FragIterNext, in call order
    iterArgs,   \* the (subnet, excludeReserved, avoidSubnets) given to ip4NewIter
    iter,       \* the ip4Iter
    iterOut,    \* the addresses read by ip4IterAddr after each true return
    iterRet,    \* the values returned by ip4IterNext, in call order
    macCounter, \* a macAddr used as the counter of macNextAddr / macNextAddrs
    macCalls,   \* the calls made on it: kind, counter before, count, buffer, result
    capIn,      \* the client and edge counts and the clientsPerEdge gmlAddLink computed
    capOut,     \* the capacities gmlNextEdge computed for edges 0, 1, ..., in order
    capFenv,    \* the floating-point rounding mode in force
    params,     \* globalParams and gmlParams: the edge nodes, srcFile, twoPass
    ctx,        \* the gmlContext of setupGraphML
    fenv,       \* the floating-point rounding mode of the process
    calls,      \* the worker and route planner calls made so far, in order
    setup,      \* setupGraphML's position and locals: err, edgePorts, loop counters
    doc,        \* the records the first of two passes over the file delivered
    lastCallback, \* the last callback the parser invoked and what it returned
    gp,         \* the GraphParserState
    xml,        \* the open elements of the document being read, innermost last
    delivered   \* the records handed to newNodeFunc and newLinkFunc, in order

fragVars == <<fragArgs, fragIt, fragOut, fragRet>>

iterVars == <<iterArgs, iter, iterOut, iterRet>>

macVars == <<macCounter, macCalls>>

capVars == <<capIn, capOut, capFenv>>

setupVars == <<params, ctx, fenv, calls, setup, doc, lastCallback>>

parseVars == <<gp, xml, delivered>>

vars == <<fragVars, iterVars, macVars, capVars, setupVars, parseVars>>

\* The sequences over S of length at most n.
SeqsUpTo(S, n) == UNION {[1 .. k -> S] : k \in 0 .. n}

\* --------------------------------------------- the fragmenter, driven alone

FragIdle ==
    /\ fragArgs = NULL
    /\ fragIt = NULL
    /\ fragOut = <<>>
    /\ fragRet = <<>>

IterIdle ==
    /\ iterArgs = NULL
    /\ iter = NULL
    /\ iterOut = <<>>
    /\ iterRet = <<>>

MacIdle ==
    /\ macCounter = NULL
    /\ macCalls = <<>>

CapIdle ==
    /\ capIn = NULL
    /\ capOut = <<>>
    /\ capFenv = NULL

SetupIdle ==
    /\ params = NULL
    /\ ctx = NULL
    /\ fenv = NULL
    /\ calls = <<>>
    /\ setup = NULL
    /\ doc = <<>>
    /\ lastCallback = NULL

ParseIdle ==
    /\ gp = NULL
    /\ xml = <<>>
    /\ delivered = <<>>

InitFrag ==
    /\ fragArgs \in [subnet : Subnets, fragmentCount : 1 .. (AddrSpace + ExtraFragments),
                     made : {FALSE}]
    /\ fragIt = NULL
    /\ fragOut = <<>>
    /\ fragRet = <<>>
    /\ IterIdle
    /\ MacIdle
    /\ CapIdle
    /\ SetupIdle
    /\ ParseIdle

\* The caller fragments the subnet.
FragmentSubnet ==
    /\ ~fragArgs.made
    /\ \E ub \in ShiftOverflowOutcomes :
          fragIt' = ip4FragmentSubnet(fragArgs.subnet, fragArgs.fragmentCount, ub)
    /\ fragArgs' = [fragArgs EXCEPT !.made = TRUE]
    /\ UNCHANGED <<fragOut, fragRet, iterVars, macVars, capVars, setupVars, parseVars>>

\* The caller advances the iterator and, on a true return, reads the fragment.
FragIterNext ==
    /\ fragArgs.made
    /\ fragIt # NULL
    /\ Len(fragRet) < fragArgs.fragmentCount + 2
    /\ LET r == ip4FragIterNext(fragIt)
       IN  /\ fragIt' = r.it
           /\ fragRet' = Append(fragRet, r.ret)
           /\ fragOut' = IF r.ret THEN Append(fragOut, ip4FragIterSubnet(r.it)) ELSE fragOut
    /\ UNCHANGED <<fragArgs, iterVars, macVars, capVars, setupVars, parseVars>>

NextFrag == FragmentSubnet \/ FragIterNext

SpecFrag == InitFrag /\ [][NextFrag]_vars

\* ------------------------------------------------- claims on the fragmenter

WellFormedSubnet(s) == s.addr \in Addrs /\ s.prefixLen \in 0 .. AddrBits

SizeOf(s) == Pow2(AddrBits - s.prefixLen)

RECURSIVE SumSizes(_)
SumSizes(ss) == IF ss = <<>> THEN 0 ELSE SizeOf(Head(ss)) + SumSizes(Tail(ss))

AddrsOf(s) == {a \in Addrs : s.addr <= a /\ a < s.addr + SizeOf(s)}

\* ip4FragIterNext has returned false: the caller has seen every fragment.
FragDone ==
    /\ fragArgs # NULL
    /\ fragArgs.made
    /\ fragIt # NULL
    /\ Len(fragRet) > 0
    /\ ~fragRet[Len(fragRet)]

\* The fragments partition the parent: N of them, sizes summing to the parent's,
\* aligned, contiguous from the parent's address, disjoint, the large ones first.
PartitionOf(parent, n, out) ==
    /\ Len(out) = n
    /\ \A i \in 1 .. Len(out) : WellFormedSubnet(out[i])
    /\ SumSizes(out) = SizeOf(parent)
    /\ \A i \in 1 .. Len(out) : out[i].addr % SizeOf(out[i]) = 0
    /\ out[1].addr = parent.addr
    /\ \A i \in 1 .. (Len(out) - 1) : out[i + 1].addr = out[i].addr + SizeOf(out[i])
    /\ \A i, j \in 1 .. Len(out) : i # j => AddrsOf(out[i]) \cap AddrsOf(out[j]) = {}
    /\ \A i, j \in 1 .. Len(out) :
          i < j => /\ SizeOf(out[i]) >= SizeOf(out[j])
                   /\ SizeOf(out[i]) \in {SizeOf(out[j]), 2 * SizeOf(out[j])}

\* C1: for every parent subnet P of size S and every fragment count N with
\* 1 <= N <= S, the fragments read from ip4FragmentSubnet(P, N) are N subnets whose
\* sizes sum to S, pairwise disjoint, each aligned on its size and contiguous from
\* P's address, large fragments first.
C1_FragmentsPartition ==
    FragDone => PartitionOf(fragArgs.subnet, fragArgs.fragmentCount, fragOut)

\* The shift 1U << smallerPow2 is defined: the small fragment is not the whole
\* address space.
ShiftDefined(subnet, fragmentCount) ==
    FloorLog2(ip4SubnetSize(subnet, FALSE) \div fragmentCount) < AddrBits

\* The same statement wherever the shift of ip4FragmentSubnet is defined.
FragmentsPartitionWhereDefined ==
    (FragDone /\ ShiftDefined(fragArgs.subnet, fragArgs.fragmentCount))
        => PartitionOf(fragArgs.subnet, fragArgs.fragmentCount, fragOut)

\* C34: the small-fragment size 1U << k of ip4FragmentSubnet is 2^k for every parent
\* prefix length and every fragment count from 1 to the size of the parent; the whole
\* address space fragmented into 1 gives a small size of the whole space, no large
\* fragment and the single fragment 0/0.
C34_SmallSizeNeverOverflows ==
    (fragArgs.made /\ fragIt # NULL) =>
        /\ fragIt.smallIncrement =
               Pow2(FloorLog2(SizeOf(fragArgs.subnet) \div fragArgs.fragmentCount))
        /\ (fragArgs.subnet.prefixLen = 0 /\ fragArgs.fragmentCount = 1) =>
               /\ fragIt.smallIncrement = AddrSpace
               /\ fragIt.largeFragmentsRemaining = 0
               /\ FragDone => fragOut = <<[addr |-> 0, prefixLen |-> 0]>>

\* The small-fragment size is 2^k wherever the shift is defined.
SmallSizeWhereDefined ==
    (fragArgs.made /\ fragIt # NULL
        /\ ShiftDefined(fragArgs.subnet, fragArgs.fragmentCount)) =>
        fragIt.smallIncrement =
            Pow2(FloorLog2(SizeOf(fragArgs.subnet) \div fragArgs.fragmentCount))

\* C21: ip4FragIterNext on an iterator made for N fragments returns true on its first
\* N calls and false on every later one; the fragment read after the first true
\* return starts at the parent's address and the one read after each later true
\* return starts where the one before it ends; a call made after a false return
\* leaves the iterator as it was.
C21_FragIterCounts ==
    /\ []((fragIt # NULL /\ fragArgs.made) =>
             /\ \A k \in 1 .. Len(fragRet) : fragRet[k] <=> k <= fragArgs.fragmentCount
             /\ Len(fragOut) = Cardinality({k \in 1 .. Len(fragRet) : fragRet[k]})
             /\ fragOut # <<>> => fragOut[1].addr = fragArgs.subnet.addr
             /\ \A i \in 1 .. (Len(fragOut) - 1) :
                    fragOut[i + 1].addr = fragOut[i].addr + SizeOf(fragOut[i]))
    /\ [][(fragIt # NULL /\ Len(fragRet) > 0 /\ ~fragRet[Len(fragRet)])
             => fragIt' = fragIt]_vars

\* Three fragments have been read and the iterator has returned false twice.
C21_Witness ==
    /\ fragIt # NULL
    /\ fragArgs.fragmentCount = 3
    /\ Len(fragOut) = 3
    /\ Len(fragRet) = 5
    /\ ~fragRet[4]
    /\ ~fragRet[5]

\* ------------------------------------------- the address iterator, driven alone

InitIter ==
    /\ iterArgs \in [subnet : Subnets, excludeReserved : BOOLEAN,
                     avoidSubnets : SeqsUpTo(Subnets, MaxAvoid)]
    /\ iter = ip4NewIter(iterArgs.subnet, iterArgs.excludeReserved, iterArgs.avoidSubnets)
    /\ iterOut = <<>>
    /\ iterRet = <<>>
    /\ FragIdle
    /\ MacIdle
    /\ CapIdle
    /\ SetupIdle
    /\ ParseIdle

\* The caller advances the iterator and, on a true return, reads the address.
IterNext ==
    /\ Len(iterRet) < SizeOf(iterArgs.subnet) + 2
    /\ LET r == ip4IterNext(iter)
       IN  /\ iter' = r.it
           /\ iterRet' = Append(iterRet, r.ret)
           /\ iterOut' = IF r.ret THEN Append(iterOut, ip4IterAddr(r.it)) ELSE iterOut
    /\ UNCHANGED <<iterArgs, fragVars, macVars, capVars, setupVars, parseVars>>

NextIter == IterNext

SpecIter == InitIter /\ [][NextIter]_vars

\* The addresses the iterator is to yield: those of the parent in no avoid subnet
\* (and, when the reserved addresses are excluded, neither its first nor its last).
IterExpected ==
    {a \in AddrsOf(iterArgs.subnet) :
        /\ \A i \in 1 .. Len(iterArgs.avoidSubnets) : a \notin AddrsOf(iterArgs.avoidSubnets[i])
        /\ (iterArgs.excludeReserved /\ ip4SubnetHasReserved(iterArgs.subnet))
              => (a # iterArgs.subnet.addr /\ a # iterArgs.subnet.addr + SizeOf(iterArgs.subnet) - 1)}

IterDone == Len(iterRet) > 0 /\ ~iterRet[Len(iterRet)]

IterYieldsComplement ==
    /\ \A i \in 1 .. Len(iterOut) : iterOut[i] \in IterExpected
    /\ \A i \in 1 .. (Len(iterOut) - 1) : iterOut[i] < iterOut[i + 1]
    /\ IterDone => {iterOut[i] : i \in 1 .. Len(iterOut)} = IterExpected
    /\ \A i \in 1 .. (Len(iterRet) - 1) : ~iterRet[i] => ~iterRet[i + 1]

\* C2: for every parent subnet and every avoid list (any order; nested, duplicated,
\* partly overlapping the parent, or wholly below or above it) the addresses yielded
\* are exactly those of the parent in no avoid subnet, strictly ascending, and the
\* iterator then returns false.
C2_IterYieldsComplement == (~iterArgs.excludeReserved) => IterYieldsComplement

\* No avoid subnet lies wholly below the parent.
NoAvoidBelowParent ==
    \A i \in 1 .. Len(iterArgs.avoidSubnets) :
        ip4SubnetEnd(iterArgs.avoidSubnets[i]) >= ip4SubnetStart(iterArgs.subnet)

\* The same statement for the avoid lists with no subnet wholly below the parent
\* (all the lists of setupGraphML, whose parent is the whole address space).
IterYieldsComplementNoneBelow == NoAvoidBelowParent => IterYieldsComplement

\* ----------------------------------------------- the MAC counter, driven alone

\* Counter values around every carry and around the wrap.
MacStarts ==
    {[i \in 1 .. MAC_ADDR_BYTES |-> IF i = MAC_ADDR_BYTES THEN last
                                    ELSE IF i >= from THEN 255 ELSE 0] :
        last \in {0, 1, 254, 255}, from \in 1 .. MAC_ADDR_BYTES}

InitMac ==
    /\ macCounter \in MacStarts
    /\ macCalls = <<>>
    /\ FragIdle
    /\ IterIdle
    /\ CapIdle
    /\ SetupIdle
    /\ ParseIdle

\* macNextAddr(&counter)
MacNextAddr ==
    /\ Len(macCalls) < MaxMacCalls
    /\ LET r == macNextAddr(macCounter)
       IN  /\ macCounter' = r.addr
           /\ macCalls' = Append(macCalls, [kind |-> "one", before |-> macCounter,
                                            count |-> 1, buffer |-> <<>>, ret |-> r.ret])
    /\ UNCHANGED <<fragVars, iterVars, capVars, setupVars, parseVars>>

\* macNextAddrs(&counter, buffer, count)
MacNextAddrs ==
    /\ Len(macCalls) < MaxMacCalls
    /\ \E count \in 0 .. MaxMacCount :
          LET r == macNextAddrs(macCounter, count)
          IN  /\ macCounter' = r.addr
              /\ macCalls' = Append(macCalls, [kind |-> "many", before |-> macCounter,
                                               count |-> count, buffer |-> r.buffer,
                                               ret |-> r.ret])
    /\ UNCHANGED <<fragVars, iterVars, capVars, setupVars, parseVars>>

NextMac == MacNextAddr \/ MacNextAddrs

SpecMac == InitMac /\ [][NextMac]_vars

MacZero == [i \in 1 .. MAC_ADDR_BYTES |-> 0]

MacOnes == [i \in 1 .. MAC_ADDR_BYTES |-> 255]

\* a < b as 48-bit big-endian numbers.
MacLess(a, b) ==
    \E j \in 1 .. MAC_ADDR_BYTES : a[j] < b[j] /\ \A i \in 1 .. (j - 1) : a[i] = b[i]

\* b = a + 1 modulo 2^48, as big-endian numbers.
MacSucc(a, b) ==
    \/ a = MacOnes /\ b = MacZero
    \/ \E j \in 1 .. MAC_ADDR_BYTES :
          /\ a[j] < 255 /\ b[j] = a[j] + 1
          /\ \A i \in 1 .. (j - 1) : b[i] = a[i]
          /\ \A i \in (j + 1) .. MAC_ADDR_BYTES : a[i] = 255 /\ b[i] = 0

\* The value the counter holds before its n-th increment of a call.
BufferConsecutive(c) ==
    /\ Len(c.buffer) = c.count
    /\ c.count > 0 => c.buffer[1] = c.before
    /\ \A i \in 1 .. (c.count - 1) : MacSucc(c.buffer[i], c.buffer[i + 1])

BufferIncreasing(c) == \A i \in 1 .. (c.count - 1) : MacLess(c.buffer[i], c.buffer[i + 1])

\* One of the call's increments wrapped the counter from ff:ff:ff:ff:ff:ff to zero.
Wrapped(c) == \E i \in 1 .. c.count : c.buffer[i] = MacOnes

\* C6 as stated: macNextAddrs always fills the buffer with k strictly increasing
\* consecutive values from the counter's value and returns false exactly when an
\* increment wrapped; macNextAddr returns false iff the incremented value is zero.
C6_MacStrictlyIncreasing ==
    \A n \in 1 .. Len(macCalls) :
        LET c == macCalls[n]
            after == IF n = Len(macCalls) THEN macCounter ELSE macCalls[n + 1].before
        IN  IF c.kind = "many"
            THEN BufferConsecutive(c) /\ BufferIncreasing(c) /\ (~c.ret <=> Wrapped(c))
            ELSE MacSucc(c.before, after) /\ (~c.ret <=> after = MacZero)

\* C6 as amended: the k values are consecutive modulo 2^48 from the counter's value;
\* they are strictly increasing whenever the call returns true (and exactly when no
\* increment but the last wrapped); false is returned exactly when an increment
\* wrapped; macNextAddr returns false iff the incremented value is zero.
C6_MacConsecutive ==
    \A n \in 1 .. Len(macCalls) :
        LET c == macCalls[n]
            after == IF n = Len(macCalls) THEN macCounter ELSE macCalls[n + 1].before
        IN  IF c.kind = "many"
            THEN /\ BufferConsecutive(c)
                 /\ c.count > 0 => MacSucc(c.buffer[c.count], after)
                 /\ c.ret => BufferIncreasing(c)
                 /\ BufferIncreasing(c) <=> ~\E i \in 1 .. (c.count - 1) : c.buffer[i] = MacOnes
                 /\ ~c.ret <=> Wrapped(c)
            ELSE MacSucc(c.before, after) /\ (~c.ret <=> after = MacZero)

\* A call of macNextAddrs for three addresses whose second increment wrapped: the
\* buffer ends ..ff, 00.. and false is returned.
C6_Witness ==
    \E n \in 1 .. Len(macCalls) :
        /\ macCalls[n].kind = "many"
        /\ macCalls[n].count = 3
        /\ ~macCalls[n].ret
        /\ macCalls[n].buffer[2] = MacOnes
        /\ macCalls[n].buffer[3] = MacZero

\* ------------------------------------------------------ setupGraphML, in steps

\* After a successful setupInit every edge node has an interface, a remote MAC and a
\* virtual subnet (its own, or a fragment of the global one; setupInit does not look
\* for overlaps), and the rounding mode is FE_DOWNWARD if setupInit fragmented.
Intfs == {"eth0", "eth1"}

EdgeSubnets == {ip4GetSubnet(AddrSpace \div 2, 1), ip4GetSubnet(AddrSpace \div 4, 2)}

EdgeMac(i) == <<2, 0, 0, 0, 0, i>>

EdgeLists ==
    LET edge(i, c) == [intf |-> c.intf, vsubnet |-> c.vsubnet, mac |-> EdgeMac(i)]
        choices == [intf : Intfs, vsubnet : EdgeSubnets]
        firsts == {c \in choices : c.intf = "eth0" /\ c.vsubnet.prefixLen = 2}
    IN  UNION {{[i \in 1 .. k |-> edge(i, c[i])] :
                   c \in {x \in [1 .. k -> choices] : x[1] \in firsts}} :
               k \in 1 .. MaxEdgeNodes}

\* The GraphML ids of the documents read, and the records the parser can deliver.
Names == {"a", "b"}

NodeRecords ==
    {[name |-> "a", client |-> TRUE],
     [name |-> "b", client |-> TRUE],
     [name |-> "b", client |-> FALSE]}

LinkRecords ==
    {[sourceName |-> "a", targetName |-> "b", weight |-> 1],
     [sourceName |-> "a", targetName |-> "b", weight |-> -1],
     [sourceName |-> "a", targetName |-> "a", weight |-> 1],
     [sourceName |-> "b", targetName |-> "b", weight |-> 1],
     [sourceName |-> "b", targetName |-> "z", weight |-> 1]}

\* The port numbers and the local MAC the worker reports for an edge interface.
Ports == {1, 2}

EdgeLocalMac == <<2, 0, 0, 0, 1, 0>>

\* setupGraphML's locals before its first statement that can fail. Beside them the
\* run remembers whether a fatal condition has occurred (a callback or the parser
\* reported an error, a worker call failed, a check of setupGraphML itself failed) and
\* whether the route loops ran to their end, and of the parse under way whether a
\* link callback has been made and whether a callback has returned nonzero, and the
\* GraphML ids that node callbacks were made for, in the order of their first callback.
NewSetup(p) ==
    [pc |-> "start",
     err |-> NULL,
     edgePorts |-> [i \in 1 .. Len(p.edgeNodes) |-> NULL],
     i |-> 0,
     pass |-> 0,
     firstRead |-> TRUE,
     pos |-> 0,
     id |-> 0,
     startId |-> 0,
     endId |-> 0,
     seenUnroutable |-> FALSE,
     failed |-> FALSE,
     completed |-> FALSE,
     linkSeen |-> FALSE,
     callbackFailed |-> FALSE,
     seen |-> <<>>,
     ret |-> NULL]

InitSetup ==
    /\ params \in [edgeNodes : EdgeLists, srcFile : BOOLEAN, twoPass : BOOLEAN]
    /\ ctx = NewContext(params)
    /\ fenv = FE_TONEAREST
    /\ calls = <<>>
    /\ setup = NewSetup(params)
    /\ doc = <<>>
    /\ lastCallback = NULL
    /\ FragIdle
    /\ IterIdle
    /\ MacIdle
    /\ CapIdle
    /\ ParseIdle

\* `goto cleanup` with err set.
Fail(s, err) == [s EXCEPT !.err = err, !.pc = "cleanup", !.failed = TRUE]

\* The two root addresses and workAddRoot, which returns one of `results`.
AddRootOn(results) ==
    /\ setup.pc = "start"
    /\ \E first \in {gmlGenerateIp(ctx)} : \E second \in {gmlGenerateIp(first.ctx)} :
           IF first.addrExhausted
           THEN ctx' = first.ctx /\ setup' = Fail(setup, 1) /\ calls' = calls
           ELSE IF second.addrExhausted
           THEN ctx' = second.ctx /\ setup' = Fail(setup, 1) /\ calls' = calls
           ELSE /\ ctx' = second.ctx
                /\ calls' = Append(calls, [op |-> "workAddRoot", addr1 |-> first.addr,
                                           addr2 |-> second.addr])
                /\ \E res \in results :
                      setup' = IF res # 0 THEN Fail(setup, res)
                               ELSE [setup EXCEPT !.err = 0, !.pc = "edges"]
    /\ UNCHANGED <<params, fenv, doc, lastCallback, fragVars, iterVars, macVars, capVars,
                   parseVars>>

AddRoot == AddRootOn(WorkResults)

\* A duplicate search that finds nothing.
SameIntfBeforeNone(i) == {}

\* The earlier edges with the interface of edge i (1-based).
SameIntfBefore(i) == {j \in 1 .. (i - 1) : params.edgeNodes[j].intf = params.edgeNodes[i].intf}

Min(S) == CHOOSE x \in S : \A y \in S : x <= y

\* One round of the edge loop: a duplicate interface reuses the port of the first edge
\* with it; otherwise the interface is added, its local MAC read and the edge routes
\* installed. `failing` is the first of the three worker calls to fail, 0 for none.
AddEdgeInterfaceOn(failings) ==
    /\ setup.pc = "edges"
    /\ setup.i < Len(params.edgeNodes)
    /\ LET i == setup.i + 1
           edge == params.edgeNodes[i]
           after(s) == [s EXCEPT !.i = @ + 1,
                                 !.pc = IF i = Len(params.edgeNodes) THEN "open" ELSE @]
       IN  IF SameIntfBefore(i) # {}
           THEN /\ setup' = after([setup EXCEPT
                                     !.edgePorts[i] = setup.edgePorts[Min(SameIntfBefore(i))]])
                /\ calls' = calls
           ELSE \E failing \in failings : \E port \in Ports :
                   LET c1 == [op |-> "workAddEdgeInterface", intf |-> edge.intf, port |-> port]
                       c2 == [op |-> "workGetEdgeLocalMac", intf |-> edge.intf]
                       c3 == [op |-> "workAddEdgeRoutes", vsubnet |-> edge.vsubnet,
                              port |-> port, localMac |-> EdgeLocalMac, mac |-> edge.mac]
                       withPort == [setup EXCEPT !.edgePorts[i] = port, !.err = 0]
                   IN  /\ calls' = calls \o (IF failing = 1 THEN <<c1>>
                                             ELSE IF failing = 2 THEN <<c1, c2>>
                                             ELSE <<c1, c2, c3>>)
                       /\ setup' = IF failing = 1 THEN Fail(setup, 1)
                                   ELSE IF failing # 0 THEN Fail(withPort, 1)
                                   ELSE after(withPort)
    /\ UNCHANGED <<params, ctx, fenv, doc, lastCallback, fragVars, iterVars, macVars,
                   capVars, parseVars>>

AddEdgeInterface == AddEdgeInterfaceOn(0 .. 3)

\* The head of the parse stage: a file is read in one or two passes, stdin in one.
OpenInput ==
    /\ setup.pc = "open"
    /\ IF params.srcFile
       THEN /\ ctx' = [ctx EXCEPT !.ignoreEdges = IF params.twoPass THEN TRUE ELSE @]
            /\ setup' = [setup EXCEPT !.pc = "parse",
                                      !.pass = IF params.twoPass THEN 2 ELSE 1]
       ELSE /\ ctx' = ctx
            /\ setup' = IF params.twoPass THEN Fail(setup, 1)
                        ELSE [setup EXCEPT !.pc = "parse"]
    /\ UNCHANGED <<params, fenv, calls, doc, lastCallback, fragVars, iterVars, macVars,
                   capVars, parseVars>>

\* The record the parser delivers next: any record on the first read of the input
\* (the document is whatever the run reads, of at most maxLen records; it is kept when
\* a second pass will read it again), the recorded one when the file is re-read.
Delivers(rec, maxLen) ==
    IF setup.firstRead
    THEN /\ setup.pos < maxLen
         /\ doc' = IF params.srcFile /\ params.twoPass THEN Append(doc, rec) ELSE doc
    ELSE setup.pos < Len(doc) /\ doc[setup.pos + 1] = rec /\ doc' = doc

\* </node>: graphEndElement calls newNodeFunc, here gmlAddNode, and drops its result.
\* The document holds one of `records`, workAddHost returns one of `results`.
NodeCallbackOn(records, results, maxLen) ==
    /\ setup.pc = "parse"
    /\ \E node \in records : \E res \in results :
          \E r \in {gmlAddNode(World(ctx, calls, fenv), node, res)} :
              /\ Delivers(node, maxLen)
              /\ ctx' = r.w.ctx
              /\ calls' = r.w.calls
              /\ lastCallback' = [kind |-> "node", record |-> node, ret |-> r.ret]
              /\ setup' = [setup EXCEPT
                             !.pos = @ + 1, !.failed = @ \/ r.ret # 0,
                             !.callbackFailed = @ \/ r.ret # 0,
                             !.seen = IF \E k \in 1 .. Len(@) : @[k] = node.name THEN @
                                      ELSE Append(@, node.name)]
    /\ UNCHANGED <<params, fenv, fragVars, iterVars, macVars, capVars, parseVars>>

NodeCallback == NodeCallbackOn(NodeRecords, WorkResults, MaxDocLen)

\* </edge>: graphEndElement calls newLinkFunc, here gmlAddLink, and drops its result.
\* The document holds one of `records`, the worker calls return one of `results`.
LinkCallbackOn(records, results, maxLen) ==
    /\ setup.pc = "parse"
    /\ \E link \in records : \E resScale \in results : \E resLink \in results :
       \E ub \in NullPlannerOutcomes :
          \E r \in {gmlAddLink(World(ctx, calls, fenv), link, params, resScale, resLink, ub)} :
              /\ Delivers(link, maxLen)
              /\ ctx' = r.w.ctx
              /\ calls' = r.w.calls
              /\ lastCallback' = [kind |-> "link", record |-> link, ret |-> r.ret]
              /\ setup' = [setup EXCEPT !.pos = @ + 1,
                                        !.failed = @ \/ r.ret # 0,
                                        !.callbackFailed = @ \/ r.ret # 0,
                                        !.linkSeen = TRUE,
                                        !.pc = IF r.w.crashed THEN "crashed" ELSE @]
    /\ UNCHANGED <<params, fenv, fragVars, iterVars, macVars, capVars, parseVars>>

LinkCallback == LinkCallbackOn(LinkRecords, WorkResults, MaxDocLen)

\* What the parse entry point returns: 0 for a well-formed document, nonzero when
\* libxml reports the input malformed or unreadable.
ParseResults == {0, 1}

\* The parse returns. A file read must succeed, and between the two passes the
\* context is switched from nodes to links; the result of reading stdin is kept in
\* err but not looked at.
ParseReturnOn(results) ==
    /\ setup.pc = "parse"
    /\ \E result \in results :
          /\ IF setup.firstRead THEN TRUE ELSE setup.pos = Len(doc) /\ result = 0
          /\ LET returned == [setup EXCEPT !.err = result, !.pos = 0, !.firstRead = FALSE,
                                           !.failed = @ \/ result # 0,
                                           !.linkSeen = FALSE,
                                           !.callbackFailed = FALSE]
             IN  IF ~params.srcFile
                 THEN ctx' = ctx /\ setup' = [returned EXCEPT !.pc = "plan"]
                 ELSE IF result # 0
                 THEN ctx' = ctx /\ setup' = Fail(returned, result)
                 ELSE /\ ctx' = IF setup.pass = 2
                                THEN [ctx EXCEPT !.finishedNodes = TRUE,
                                                 !.ignoreNodes = TRUE,
                                                 !.ignoreEdges = FALSE]
                                ELSE ctx
                      /\ setup' = [returned EXCEPT
                                     !.pass = @ - 1,
                                     !.pc = IF setup.pass = 1 THEN "plan" ELSE @]
    /\ UNCHANGED <<params, fenv, calls, doc, lastCallback, fragVars, iterVars, macVars,
                   capVars, parseVars>>

ParseReturn == ParseReturnOn(ParseResults)

\* Route loops that go on to the next start node after every pair.
NextPairSkipping(startId, endId, n) == <<startId + 1, startId + 2>>

\* The client pair the route loops visit after (startId, endId), among n nodes.
NextPair(startId, endId, n) ==
    IF endId + 1 < n THEN <<startId, endId + 1>> ELSE <<startId + 1, startId + 2>>

\* A warning for every unroutable pair.
WarnUnroutableAlways(seenUnroutable, startId, endId) ==
    <<[op |-> "lprintf", level |-> "LogWarning", start |-> startId, end |-> endId]>>

\* The warning about an unroutable pair, logged unless one has been logged before.
WarnUnroutable(seenUnroutable, startId, endId) ==
    IF seenUnroutable THEN <<>>
    ELSE <<[op |-> "lprintf", level |-> "LogWarning", start |-> startId, end |-> endId]>>

\* Enter the route loops at their first pair, or leave them at once.
EnterRoutes(s, n) ==
    IF n < 2 THEN [s EXCEPT !.pc = "cleanup", !.completed = TRUE]
    ELSE [s EXCEPT !.pc = "routes", !.startId = 0, !.endId = 1]

\* Without a planner the topology had no links; otherwise the routes are planned.
PlanRoutes ==
    /\ setup.pc = "plan"
    /\ IF ctx.routes = NULL
       THEN ctx' = ctx /\ calls' = calls /\ setup' = Fail(setup, 1)
       ELSE /\ ctx' = [ctx EXCEPT !.routes = rpPlanRoutes(@)]
            /\ calls' = Append(calls, [op |-> "rpPlanRoutes"])
            /\ setup' = IF ctx.nodeCount = 0 THEN EnterRoutes(setup, 0)
                        ELSE [setup EXCEPT !.pc = "assign", !.id = 0]
    /\ UNCHANGED <<params, fenv, doc, lastCallback, fragVars, iterVars, macVars, capVars,
                   parseVars>>

\* One round of the assignment loop: a client node gets the next client subnet and its
\* client routes. When gmlNextClientSubnet fails the loop is left with err as it was.
AssignClient ==
    /\ setup.pc = "assign"
    /\ setup.id < ctx.nodeCount
    /\ LET node == ctx.nodeStates[setup.id + 1]
           after(s) == IF setup.id + 1 < ctx.nodeCount THEN [s EXCEPT !.id = @ + 1]
                       ELSE EnterRoutes(s, ctx.nodeCount)
       IN  IF ~node.isClient
           THEN ctx' = ctx /\ calls' = calls /\ fenv' = fenv /\ setup' = after(setup)
           ELSE \E ub \in ShiftOverflowOutcomes : \E res \in WorkResults :
                \E r \in {gmlNextClientSubnet(World(ctx, calls, fenv), params, ub)} :
                   LET got == [r.w.ctx EXCEPT !.nodeStates[setup.id + 1].clientSubnet = r.subnet]
                       call == [op |-> "workAddClientRoutes", id |-> setup.id,
                                macs |-> node.clientMacs, subnet |-> r.subnet,
                                edge |-> got.currentEdgeIdx,
                                port |-> setup.edgePorts[got.currentEdgeIdx + 1]]
                   IN  /\ fenv' = r.w.fenv
                       /\ IF r.w.crashed
                          THEN /\ ctx' = r.w.ctx /\ calls' = r.w.calls
                               /\ setup' = [setup EXCEPT !.pc = "crashed"]
                          ELSE IF ~r.ret
                          THEN /\ ctx' = r.w.ctx /\ calls' = r.w.calls
                               /\ setup' = [setup EXCEPT !.pc = "cleanup", !.failed = TRUE]
                          ELSE /\ ctx' = got
                               /\ calls' = Append(r.w.calls, call)
                               /\ setup' = IF res # 0 THEN Fail(setup, res)
                                           ELSE after([setup EXCEPT !.err = 0])
    /\ UNCHANGED <<params, doc, lastCallback, fragVars, iterVars, macVars, capVars,
                   parseVars>>

\* One round of the inner route loop, for the pair (startId, endId): between two
\* clients a route is asked for and every hop of it installed. `failing` is the hop
\* whose workAddInternalRoutes fails, 0 for none.
RoutePair ==
    /\ setup.pc = "routes"
    /\ LET start == ctx.nodeStates[setup.startId + 1]
           end == ctx.nodeStates[setup.endId + 1]
           paths == rpGetRoute(ctx.routes, setup.startId, setup.endId)
           next == NextPair(setup.startId, setup.endId, ctx.nodeCount)
           after(s) == IF next[2] < ctx.nodeCount
                       THEN [s EXCEPT !.startId = next[1], !.endId = next[2]]
                       ELSE [s EXCEPT !.pc = "cleanup", !.completed = TRUE]
           asked == Append(calls, [op |-> "rpGetRoute", start |-> setup.startId,
                                   end |-> setup.endId])
           hop(path, step) ==
               [op |-> "workAddInternalRoutes",
                prevId |-> path[step], nextId |-> path[step + 1],
                prevAddr |-> ctx.nodeStates[path[step] + 1].addr,
                nextAddr |-> ctx.nodeStates[path[step + 1] + 1].addr,
                startSubnet |-> start.clientSubnet, endSubnet |-> end.clientSubnet]
       IN  IF ~start.isClient \/ ~end.isClient
           THEN calls' = calls /\ setup' = after(setup)
           ELSE IF paths = {}
           THEN /\ calls' = asked \o WarnUnroutable(setup.seenUnroutable,
                                                    setup.startId, setup.endId)
                /\ setup' = after([setup EXCEPT !.seenUnroutable = TRUE])
           ELSE \E path \in paths : \E failing \in 0 .. (Len(path) - 1) :
                   LET made == IF failing = 0 THEN Len(path) - 1 ELSE failing
                   IN  /\ calls' = asked \o [step \in 1 .. made |-> hop(path, step)]
                       /\ setup' = IF failing # 0 THEN Fail(setup, 1)
                                   ELSE after([setup EXCEPT !.err = 0])
    /\ UNCHANGED <<params, ctx, fenv, doc, lastCallback, fragVars, iterVars, macVars,
                   capVars, parseVars>>

\* The cleanup label: everything the call owns is released and err returned.
Cleanup ==
    /\ setup.pc = "cleanup"
    /\ setup' = [setup EXCEPT !.pc = "done", !.ret = setup.err]
    /\ calls' = calls
                 \o (IF ctx.clientIter # NULL
                     THEN <<[op |-> "ip4FreeFragIter", edge |-> ctx.currentEdgeIdx]>>
                     ELSE <<>>)
                 \o (IF ctx.routes # NULL THEN <<[op |-> "rpFreePlan"]>> ELSE <<>>)
                 \o <<[op |-> "g_hash_table_destroy"], [op |-> "ip4FreeIter"],
                      [op |-> "flexBufferFree"], [op |-> "free", what |-> "edgePorts"]>>
    /\ UNCHANGED <<params, ctx, fenv, doc, lastCallback, fragVars, iterVars,
                   macVars, capVars, parseVars>>

NextSetup ==
    \/ AddRoot
    \/ AddEdgeInterface
    \/ OpenInput
    \/ NodeCallback
    \/ LinkCallback
    \/ ParseReturn
    \/ PlanRoutes
    \/ AssignClient
    \/ RoutePair
    \/ Cleanup

SpecSetup == InitSetup /\ [][NextSetup]_vars

\* C11: in single-pass mode, once a link callback has been made in the parse, every
\* node callback returns nonzero, calls no worker (workAddHost in particular) and
\* leaves the whole context as it was: nodeCount, clientNodes, the id map, the
\* interface address iterator and the MAC counter.
NodeAfterLinkStep ==
    /\ ~params.twoPass
    /\ setup.pc = "parse"
    /\ setup.linkSeen
    /\ setup'.pos = setup.pos + 1
    /\ lastCallback'.kind = "node"

C11_NodesAfterEdgesRejected ==
    [][NodeAfterLinkStep => (lastCallback'.ret # 0 /\ calls' = calls /\ ctx' = ctx)]_vars

\* A node callback made after a link callback in one pass has returned nonzero, with
\* an address still free for the node it was made for.
C11_Witness ==
    /\ ~params.twoPass
    /\ setup.pc = "parse"
    /\ setup.linkSeen
    /\ lastCallback # NULL
    /\ lastCallback.kind = "node"
    /\ lastCallback.ret # 0
    /\ lastCallback.record.name \notin DOMAIN ctx.gmlToState
    /\ ip4IterNext(ctx.intfAddrIter).ret

\* The workAddEdgeInterface calls made so far, in order.
EdgeInterfaceCalls == SelectSeq(calls, LAMBDA c : c.op = "workAddEdgeInterface")

\* The edges (1-based) that are the first to use their interface.
FirstUses ==
    {i \in 1 .. Len(params.edgeNodes) :
        \A j \in 1 .. (i - 1) : params.edgeNodes[j].intf # params.edgeNodes[i].intf}

\* The k-th of them.
FirstUse(k) == CHOOSE i \in FirstUses : Cardinality({j \in FirstUses : j <= i}) = k

EdgeStageDone == setup.i = Len(params.edgeNodes)

\* C12: workAddEdgeInterface is never called twice for one interface name; when the
\* edge-interface stage is over it has been called once per distinct interface, in
\* the order of the first edges that use them, and every edge holds the port that
\* the call for its interface returned, so edges with one interface hold one port.
C12_OnePortPerInterface ==
    /\ \A k, l \in 1 .. Len(EdgeInterfaceCalls) :
           EdgeInterfaceCalls[k].intf = EdgeInterfaceCalls[l].intf => k = l
    /\ EdgeStageDone =>
           /\ Len(EdgeInterfaceCalls) = Cardinality(FirstUses)
           /\ \A k \in 1 .. Len(EdgeInterfaceCalls) :
                  EdgeInterfaceCalls[k].intf = params.edgeNodes[FirstUse(k)].intf
           /\ \A i \in 1 .. Len(params.edgeNodes) :
                  \E k \in 1 .. Len(EdgeInterfaceCalls) :
                     /\ EdgeInterfaceCalls[k].intf = params.edgeNodes[i].intf
                     /\ setup.edgePorts[i] = EdgeInterfaceCalls[k].port

\* The stage is over for a list in which a later edge shares the interface of the
\* first and another edge has an interface of its own.
C12_Witness ==
    /\ EdgeStageDone
    /\ setup.pc = "open"
    /\ \E i, j \in 2 .. Len(params.edgeNodes) :
           /\ params.edgeNodes[i].intf = params.edgeNodes[1].intf
           /\ params.edgeNodes[j].intf # params.edgeNodes[1].intf
           /\ setup.edgePorts[i] = setup.edgePorts[1]

\* The workAddEdgeRoutes calls made so far that carry what edge i (1-based) is to be
\* routed with: its virtual subnet, its port, the local MAC of its interface and its
\* remote MAC.
EdgeRoutesCallsFor(i) ==
    {k \in 1 .. Len(calls) :
        /\ calls[k].op = "workAddEdgeRoutes"
        /\ calls[k].vsubnet = params.edgeNodes[i].vsubnet
        /\ calls[k].port = setup.edgePorts[i]
        /\ calls[k].localMac = EdgeLocalMac
        /\ calls[k].mac = params.edgeNodes[i].mac}

\* C22: when the edge-interface stage is over without error, workAddEdgeRoutes has
\* been called exactly once for every configured edge, an edge that shares its
\* interface with an earlier one included, with that edge's virtual subnet, its port,
\* the local MAC of its interface and its remote MAC.
C22_RoutesForEveryEdge ==
    EdgeStageDone =>
        /\ \A i \in 1 .. Len(params.edgeNodes) : Cardinality(EdgeRoutesCallsFor(i)) = 1
        /\ Len(SelectSeq(calls, LAMBDA c : c.op = "workAddEdgeRoutes")) = Len(params.edgeNodes)

\* Restricted to the edges that are the first to use their interface, the statement
\* holds.
RoutesForFirstUses ==
    EdgeStageDone =>
        /\ \A i \in FirstUses : Cardinality(EdgeRoutesCallsFor(i)) = 1
        /\ Len(SelectSeq(calls, LAMBDA c : c.op = "workAddEdgeRoutes")) = Cardinality(FirstUses)

\* The addresses of 0.0.0.0/8, 127.0.0.0/8, 255.255.255.255/32 (at the model's address
\* width) and of every edge's virtual subnet.
RestrictedAddrs ==
    UNION ({AddrsOf(ip4GetSubnet(0, AddrBits - 1)),
            AddrsOf(ip4GetSubnet(AddrSpace \div 2 - 1, AddrBits - 1)),
            {AddrSpace - 1}}
           \cup {AddrsOf(params.edgeNodes[i].vsubnet) : i \in 1 .. Len(params.edgeNodes)})

RootCalls == {k \in 1 .. Len(calls) : calls[k].op = "workAddRoot"}

HostCalls == {k \in 1 .. Len(calls) : calls[k].op = "workAddHost"}

\* C13: the two root addresses and the address of every node passed to workAddHost
\* lie outside the reserved ranges and outside every edge's virtual subnet; the two
\* root addresses differ, no node has a root address, and two different nodes never
\* have the same address.
C13_AddressesUnrestrictedAndDistinct ==
    /\ \A k \in RootCalls :
           /\ calls[k].addr1 \notin RestrictedAddrs
           /\ calls[k].addr2 \notin RestrictedAddrs
           /\ calls[k].addr1 # calls[k].addr2
    /\ \A k \in HostCalls :
           /\ calls[k].addr \notin RestrictedAddrs
           /\ \A r \in RootCalls : calls[k].addr \notin {calls[r].addr1, calls[r].addr2}
           /\ \A l \in HostCalls : calls[l].id # calls[k].id => calls[l].addr # calls[k].addr

\* Two different nodes have been passed to workAddHost after the root.
C13_Witness ==
    /\ RootCalls # {}
    /\ \E k, l \in HostCalls : calls[k].id # calls[l].id
    /\ Len(params.edgeNodes) > 1

\* The ids the map holds.
AssignedIds == {ctx.gmlToState[n] : n \in DOMAIN ctx.gmlToState}

\* The place of a name among the names node callbacks were made for.
SeenRank(name) == CHOOSE k \in 1 .. Len(setup.seen) : setup.seen[k] = name

\* No step changes or removes the id of a registered name.
IdsKept ==
    \A n \in DOMAIN ctx.gmlToState :
        n \in DOMAIN ctx'.gmlToState /\ ctx'.gmlToState[n] = ctx.gmlToState[n]

\* C14: the assigned ids are exactly 0 .. nodeCount - 1, no two names share one, the
\* k-th distinct GraphML id that a node callback was made for has id k - 1, a lookup of
\* a registered name returns its id and changes nothing, and no step changes the id of
\* a registered name.
C14_DenseFirstSeenIds ==
    /\ [](/\ AssignedIds = 0 .. (ctx.nodeCount - 1)
          /\ Cardinality(DOMAIN ctx.gmlToState) = ctx.nodeCount
          /\ \A n \in DOMAIN ctx.gmlToState :
                 /\ \E k \in 1 .. Len(setup.seen) : setup.seen[k] = n
                 /\ ctx.gmlToState[n] = SeenRank(n) - 1
                 /\ \A node \in {NULL, [name |-> n, client |-> TRUE]} :
                        gmlNameToState(ctx, n, node) =
                            [ctx |-> ctx, ok |-> TRUE, id |-> ctx.gmlToState[n]])
    /\ [][IdsKept]_vars

\* Two names are registered, the second of them by a callback that was later repeated.
C14_Witness ==
    /\ ctx.nodeCount = 2
    /\ Len(SelectSeq(calls, LAMBDA c : c.op = "workAddHost")) = 3
    /\ lastCallback.kind = "node"
    /\ ctx.gmlToState[lastCallback.record.name] = 1

\* C20: after a node or link callback has returned nonzero during a parse, the parser
\* invokes no further callback; the next thing that happens is that the parse returns
\* nonzero and setupGraphML goes to its cleanup with that error.
C20_CallbackErrorStopsParse ==
    [][(setup.pc = "parse" /\ setup.callbackFailed) =>
          /\ lastCallback' = lastCallback
          /\ calls' = calls
          /\ setup'.pos = 0
          /\ setup'.err # 0
          /\ setup'.pc = "cleanup"]_vars

\* The places in the call log of the calls of the given operations.
CallsOf(ops) == {k \in 1 .. Len(calls) : calls[k].op \in ops}

\* Every call of the first set was made before every call of the second.
AllBefore(A, B) == \A a \in A : \A b \in B : a < b

EdgeStageOps == {"workAddEdgeInterface", "workAddEdgeRoutes"}

IngestOps == {"workAddHost", "workAddLink", "workSetSelfLink"}

\* The order of the calls in the log: root, edges, topology; weights, plan, routes;
\* client routes, internal routes.
CallsInStageOrder ==
    /\ AllBefore(CallsOf({"workAddRoot"}), CallsOf(EdgeStageOps \cup IngestOps))
    /\ AllBefore(CallsOf(EdgeStageOps), CallsOf(IngestOps))
    /\ Cardinality(CallsOf({"rpPlanRoutes"})) <= 1
    /\ AllBefore(CallsOf({"rpSetWeight"}), CallsOf({"rpPlanRoutes"}))
    /\ AllBefore(CallsOf({"rpPlanRoutes"}), CallsOf({"rpGetRoute"}))
    /\ AllBefore(CallsOf({"workAddClientRoutes"}), CallsOf({"workAddInternalRoutes"}))

\* The run is in a stage after the topology was read although a fatal condition has
\* occurred. A failure of the planning, assignment or route stage itself leads straight
\* to the cleanup, so the condition occurred in an earlier stage.
PastFailedStage == setup.failed /\ setup.pc \in {"plan", "assign", "routes"}

\* C23: the worker and planner calls of a run respect the order of the stages:
\* workAddRoot before every workAddEdgeInterface and workAddEdgeRoutes, these before
\* every workAddHost, workAddLink and workSetSelfLink; rpPlanRoutes at most once, after
\* the last rpSetWeight and before any rpGetRoute; every workAddClientRoutes before
\* every workAddInternalRoutes; and no call of a later stage is made after an earlier
\* stage failed.
C23_StageOrder ==
    /\ []CallsInStageOrder
    /\ [][PastFailedStage => calls' = calls]_vars

\* What a link callback, and the stages after it, can do to the network and the planner.
LinkStageOps ==
    {"workEnsureSystemScaling", "rpNewPlanner", "workAddLink", "workSetSelfLink",
     "rpSetWeight", "workAddClientRoutes"}

\* C24: while the topology has fewer client nodes than there are edge nodes, no link
\* has been added (workAddLink, workSetSelfLink), no planner has been allocated and
\* no weight set, workEnsureSystemScaling has not been called and no client routes
\* have been installed, the process has not been killed, and a setupGraphML that has
\* returned has returned nonzero. (The client count only grows, so calls found in the
\* log were made with no more clients than there are now.)
C24_TooFewClientsStopsSetup ==
    ctx.clientNodes < Len(params.edgeNodes) =>
        /\ CallsOf(LinkStageOps) = {}
        /\ ctx.routes = NULL
        /\ setup.pc # "crashed"
        /\ setup.pc = "done" => setup.ret # 0

\* A link callback is made for a link one of whose ends is not in the id map.
UnresolvedLinkStep ==
    /\ setup.pc = "parse"
    /\ setup'.pos = setup.pos + 1
    /\ lastCallback'.kind = "link"
    /\ \/ lastCallback'.record.sourceName \notin DOMAIN ctx.gmlToState
       \/ lastCallback'.record.targetName \notin DOMAIN ctx.gmlToState

\* The callback returns nonzero, the nodes, the id map, the interface address iterator
\* and the MAC counter are as before, and no link was added and no weight set.
LinkRejected ==
    /\ lastCallback'.ret # 0
    /\ ctx'.nodeCount = ctx.nodeCount
    /\ ctx'.nodeStates = ctx.nodeStates
    /\ ctx'.gmlToState = ctx.gmlToState
    /\ ctx'.intfAddrIter = ctx.intfAddrIter
    /\ ctx'.macAddrIter = ctx.macAddrIter
    /\ \A k \in (Len(calls) + 1) .. Len(calls') :
           calls'[k].op \notin {"workAddLink", "workSetSelfLink", "rpSetWeight"}

\* C25 as stated: every link callback whose source or target id no node callback has
\* registered returns nonzero, creates no node state, draws no interface address and
\* no MAC, and calls neither workAddLink, workSetSelfLink nor rpSetWeight.
C25_UnknownEndpointRejected == [][UnresolvedLinkStep => LinkRejected]_vars

\* C25, amended: the same of every such link callback that is not ignored, that is,
\* of every one but those of the first pass of two.
C25_UnknownEndpointRejectedUnlessIgnored ==
    [][(UnresolvedLinkStep /\ ~ctx.ignoreEdges) => LinkRejected]_vars

\* A link from a registered node to an id that was never registered has been refused
\* after the first-invocation block had allocated the planner.
C25_Witness ==
    /\ setup.pc = "parse"
    /\ lastCallback # NULL
    /\ lastCallback.kind = "link"
    /\ lastCallback.ret # 0
    /\ lastCallback.record.sourceName \in DOMAIN ctx.gmlToState
    /\ lastCallback.record.targetName \notin DOMAIN ctx.gmlToState
    /\ ctx.routes # NULL

\* A link callback is made that reaches the registration of its link: it is not
\* ignored, the first-invocation block has been passed (now or before), and both ends
\* are in the id map.
ResolvedLinkStep ==
    /\ setup.pc = "parse"
    /\ setup'.pos = setup.pos + 1
    /\ lastCallback'.kind = "link"
    /\ ~ctx.ignoreEdges
    /\ ctx.finishedNodes \/ ctx'.routes # NULL
    /\ lastCallback'.record.sourceName \in DOMAIN ctx.gmlToState
    /\ lastCallback'.record.targetName \in DOMAIN ctx.gmlToState

\* The operations the step has added to the call log.
NewOps == {calls'[k].op : k \in (Len(calls) + 1) .. Len(calls')}

\* The callback has registered a self-link and nothing else.
SelfLinkSet ==
    /\ "workSetSelfLink" \in NewOps
    /\ ctx'.macAddrIter = ctx.macAddrIter
    /\ NewOps \cap {"workAddLink", "rpSetWeight"} = {}

\* The callback has drawn a block of NEEDED_MACS_LINK addresses and added the link
\* with them.
LinkAdded ==
    LET Drawn(macs) ==
            /\ "workSetSelfLink" \notin NewOps
            /\ ctx'.macAddrIter = macs.addr
            /\ Len(macs.buffer) = NEEDED_MACS_LINK
            /\ \E k \in (Len(calls) + 1) .. Len(calls') :
                   calls'[k].op = "workAddLink" /\ calls'[k].macs = macs.buffer
    IN  Drawn(macNextAddrs(ctx.macAddrIter, NEEDED_MACS_LINK))

\* The callback has done nothing for its link and returned 0.
LinkSkipped ==
    /\ NewOps \cap {"workSetSelfLink", "workAddLink", "rpSetWeight"} = {}
    /\ ctx'.macAddrIter = ctx.macAddrIter
    /\ lastCallback'.ret = 0

SameNode(link) == ctx.gmlToState[link.sourceName] = ctx.gmlToState[link.targetName]

SourceIsClient(link) == ctx.nodeStates[ctx.gmlToState[link.sourceName] + 1].isClient

\* C26 as stated: a link callback calls workSetSelfLink, draws no MAC, calls no
\* workAddLink and sets no weight exactly when both ends resolve to one node and that
\* node is a client; in every other case, a self-loop on a non-client included, it
\* draws a block of NEEDED_MACS_LINK MACs and registers the link with workAddLink.
C26_SelfLinkOrLink ==
    [][ResolvedLinkStep =>
          IF SameNode(lastCallback'.record) /\ SourceIsClient(lastCallback'.record)
          THEN SelfLinkSet
          ELSE LinkAdded]_vars

\* C26, amended: for a self-loop on a non-client node the callback does nothing and
\* returns 0; the rest as stated.
C26_SelfLinkOrLinkOrNothing ==
    [][ResolvedLinkStep =>
          IF ~SameNode(lastCallback'.record) THEN LinkAdded
          ELSE IF SourceIsClient(lastCallback'.record) THEN SelfLinkSet
          ELSE LinkSkipped]_vars

\* A self-loop on a non-client node has been read in one pass, with the planner
\* allocated, and the callback has returned 0.
C26_Witness ==
    /\ setup.pc = "parse"
    /\ lastCallback # NULL
    /\ lastCallback.kind = "link"
    /\ lastCallback.record.sourceName = "b"
    /\ lastCallback.record.targetName = "b"
    /\ "b" \in DOMAIN ctx.gmlToState
    /\ ~ctx.nodeStates[ctx.gmlToState["b"] + 1].isClient
    /\ ctx.routes # NULL
    /\ lastCallback.ret = 0
    /\ ~params.twoPass

\* The calls that create or free a client fragment iterator, in the order made.
IterEvents ==
    SelectSeq(calls, LAMBDA c : c.op \in {"ip4FragmentSubnet", "ip4FreeFragIter"})

\* Every fragment iterator created so far was freed before the next one was created,
\* and nothing was freed that was not the one created last.
ItersFreedInTurn ==
    \A k \in 1 .. Len(IterEvents) :
        IF k % 2 = 1 THEN IterEvents[k].op = "ip4FragmentSubnet"
        ELSE /\ IterEvents[k].op = "ip4FreeFragIter"
             /\ IterEvents[k].edge = IterEvents[k - 1].edge

\* What the cleanup label alone releases.
OwnedAlwaysOps == {"g_hash_table_destroy", "ip4FreeIter", "flexBufferFree", "free"}

\* C30: on every return path of setupGraphML the address iterator, the id hash table,
\* the node-state buffer and the edge-port array are released exactly once, the route
\* planner is released once if it was allocated and not at all otherwise, and every
\* fragment iterator created by gmlNextEdge has been freed exactly once, when the
\* assignment advanced to the next edge or in the cleanup; before the return nothing
\* the cleanup owns has been released and the one iterator still allocated, if any, is
\* the one the context holds.
C30_ReleasedExactlyOnce ==
    /\ ItersFreedInTurn
    /\ setup.pc # "done" => CallsOf(OwnedAlwaysOps \cup {"rpFreePlan"}) = {}
    /\ setup.pc \notin {"done", "crashed"} =>
           (Len(IterEvents) % 2 = 1) = (ctx.clientIter # NULL)
    /\ setup.pc = "done" =>
           /\ \A op \in OwnedAlwaysOps : Cardinality(CallsOf({op})) = 1
           /\ Cardinality(CallsOf({"rpNewPlanner"})) <= 1
           /\ Cardinality(CallsOf({"rpFreePlan"})) = Cardinality(CallsOf({"rpNewPlanner"}))
           /\ Len(IterEvents) % 2 = 0

\* A run returned after the planner was allocated, one iterator was freed on advancing
\* to the next edge and the last one was freed by the cleanup.
C30_Witness ==
    /\ setup.pc = "done"
    /\ CallsOf({"rpFreePlan"}) # {}
    /\ Len(IterEvents) >= 4
    /\ \E k \in CallsOf({"ip4FreeFragIter"}) :
           /\ k < Len(calls)
           /\ calls[k + 1].op = "rpFreePlan"

\* The node states registered as clients.
ClientStates == {i \in 1 .. Len(ctx.nodeStates) : ctx.nodeStates[i].isClient}

\* nodeCount is the number of node states and of distinct GraphML ids registered.
NodeCountIsDistinctIds ==
    /\ ctx.nodeCount = Len(ctx.nodeStates)
    /\ ctx.nodeCount = Cardinality(DOMAIN ctx.gmlToState)

\* C31: whatever node callbacks have been made, repeated ids included, clientNodes is
\* the number of node states with isClient set and nodeCount the number of distinct
\* ids registered.
C31_ClientNodesCountsClientStates ==
    /\ ctx.clientNodes = Cardinality(ClientStates)
    /\ NodeCountIsDistinctIds

\* C8: when setupGraphML returns 0, no fatal condition has occurred in the run and
\* every stage was completed, the route loops included; a run in which a fatal
\* condition occurred returns nonzero.
C8_ZeroOnlyOnSuccess ==
    (setup.pc = "done" /\ setup.ret = 0) => (~setup.failed /\ setup.completed)

\* The second of two passes over a file is being read and has just delivered a link.
LinkInSecondPass ==
    /\ params.srcFile
    /\ params.twoPass
    /\ setup.pc \in {"parse", "crashed"}
    /\ ~setup.firstRead
    /\ setup.pos > 0
    /\ lastCallback.kind = "link"

Called(op) == \E k \in 1 .. Len(calls) : calls[k].op = op

\* C9: in two-pass mode, with at least as many clients as edges, a link callback of
\* the second pass has performed the first-invocation steps: the client count was
\* checked and workEnsureSystemScaling called, and no rpSetWeight is attempted
\* without a planner (the process is not killed there).
C9_SecondPassLinkFinishesNodes ==
    (LinkInSecondPass /\ ctx.clientNodes >= Len(params.edgeNodes)) =>
        (Called("workEnsureSystemScaling") /\ setup.pc # "crashed")

\* A callback step of a two-pass read that the pass is to ignore: a link in the
\* first pass, a node in the second.
IgnoredCallbackStep ==
    /\ params.srcFile
    /\ params.twoPass
    /\ setup.pc = "parse"
    /\ setup'.pos = setup.pos + 1
    /\ \/ setup.pass = 2 /\ lastCallback'.kind = "link"
       \/ setup.pass = 1 /\ lastCallback'.kind = "node"

\* Any step taken while the second pass is being read.
SecondPassStep == params.srcFile /\ params.twoPass /\ setup.pc = "parse" /\ setup.pass = 1

\* C10: in two-pass mode a link callback of the first pass and a node callback of the
\* second pass return 0, make no worker or planner call and leave the context as it
\* is; throughout the second pass the node count, the client count and the id map
\* stay those the first pass left.
C10_TwoPassNoOps ==
    [][/\ IgnoredCallbackStep =>
            (lastCallback'.ret = 0 /\ calls' = calls /\ ctx' = ctx)
       /\ SecondPassStep =>
            /\ ctx'.nodeCount = ctx.nodeCount
            /\ ctx'.clientNodes = ctx.clientNodes
            /\ ctx'.gmlToState = ctx.gmlToState]_vars

\* The second pass has re-read a document of a link, which the first pass ignored,
\* and then a node, which the second ignored.
C10_Witness ==
    /\ params.srcFile
    /\ params.twoPass
    /\ setup.pc = "parse"
    /\ ~setup.firstRead
    /\ setup.pos = 2
    /\ lastCallback.kind = "node"
    /\ "sourceName" \in DOMAIN doc[1]
    /\ "name" \in DOMAIN doc[2]
    /\ ctx.nodeCount = 1

\* ------------------------------------------------------------------ setupInit

\* The first loop of setupInit, from edge i on: a missing interface is replaced by the
\* default one, a missing remote MAC is asked of the worker, and the edges without a
\* virtual subnet are counted. `failingMac` is the edge whose workGetEdgeRemoteMac
\* fails, 0 for none.
RECURSIVE CompleteEdges(_, _, _, _)
CompleteEdges(s, defaults, i, failingMac) ==
    IF i > Len(s.edges) THEN s
    ELSE LET edge == s.edges[i]
             named == IF edge.intf = NULL THEN [edge EXCEPT !.intf = [chars |-> defaults.intf]]
                      ELSE edge
             asked == Append(s.calls, [op |-> "workGetEdgeRemoteMac", intf |-> named.intf,
                                       edge |-> i])
             counted == IF edge.vsubnetSpecified THEN s.edgeSubnetsNeeded
                        ELSE s.edgeSubnetsNeeded + 1
         IN  IF edge.intf = NULL /\ ~defaults.intfSpecified
             THEN [s EXCEPT !.res = 1, !.failed = TRUE]
             ELSE IF edge.macSpecified
             THEN CompleteEdges([s EXCEPT !.edges[i] = named,
                                          !.edgeSubnetsNeeded = counted],
                                defaults, i + 1, failingMac)
             ELSE IF failingMac = i
             THEN [s EXCEPT !.edges[i] = named, !.calls = asked, !.res = 1,
                            !.failed = TRUE]
             ELSE CompleteEdges([s EXCEPT !.edges[i] = [named EXCEPT !.mac = EdgeMac(i)],
                                          !.calls = asked,
                                          !.edgeSubnetsNeeded = counted],
                                defaults, i + 1, failingMac)

\* The loop that hands the fragments out, from edge i on.
RECURSIVE AssignFragments(_, _)
AssignFragments(s, i) ==
    IF i > Len(s.edges) THEN s
    ELSE IF s.edges[i].vsubnetSpecified THEN AssignFragments(s, i + 1)
    ELSE LET Advanced(r) ==
                 IF ~r.ret THEN [s EXCEPT !.subnetErr = TRUE, !.it = r.it]
                 ELSE AssignFragments([s EXCEPT !.edges[i].vsubnet = ip4FragIterSubnet(r.it),
                                                !.it = r.it],
                                      i + 1)
         IN  Advanced(ip4FragIterNext(s.it))

\* "Automatically provide client subnets to unconfigured edge nodes": the edges, the
\* rounding mode (ip4FragmentSubnet leaves it at FE_DOWNWARD) and subnetErr.
ProvideSubnets(edges, edgeSubnetsNeeded, globalVSubnet, rounding, ub) ==
    LET Made(fit) ==
            IF fit = NULL
            THEN [edges |-> edges, subnetErr |-> TRUE, fenv |-> rounding, it |-> NULL]
            ELSE AssignFragments([edges |-> edges, subnetErr |-> FALSE,
                                  fenv |-> FE_DOWNWARD, it |-> fit], 1)
    IN  IF edgeSubnetsNeeded > AddrSpace - 1
        THEN [edges |-> edges, subnetErr |-> TRUE, fenv |-> rounding, it |-> NULL]
        ELSE IF edgeSubnetsNeeded > 0
        THEN Made(ip4FragmentSubnet(globalVSubnet, edgeSubnetsNeeded, ub))
        ELSE [edges |-> edges, subnetErr |-> FALSE, fenv |-> rounding, it |-> NULL]

\* setupInit: the parameters after the call (the edge nodes are completed in place),
\* the worker calls made, the rounding mode, the value returned and whether the call
\* got as far as providing the subnets.
\* `resInit` is what workInit returns.
setupInit(p, rounding, resInit, failingMac, ub) ==
    LET init == <<[op |-> "workInit"]>>
        cleanup(edges, made, fe, res, counted) ==
            [params |-> [p EXCEPT !.edgeNodes = edges],
             calls |-> Append(made, [op |-> "workCleanup"]),
             fenv |-> fe,
             ret |-> res,
             counted |-> counted]
        Provided(s, prov) ==
            IF prov.subnetErr
            THEN cleanup(prov.edges, s.calls, prov.fenv, 1, TRUE)
            ELSE [params |-> [p EXCEPT !.edgeNodes = prov.edges],
                  calls |-> s.calls,
                  fenv |-> prov.fenv,
                  ret |-> 0,
                  counted |-> TRUE]
        Completed(s) ==
            IF s.failed THEN cleanup(s.edges, s.calls, rounding, s.res, FALSE)
            ELSE Provided(s, ProvideSubnets(s.edges, s.edgeSubnetsNeeded,
                                            p.edgeNodeDefaults.globalVSubnet, rounding, ub))
    IN  IF resInit # 0
        THEN [params |-> p, calls |-> init, fenv |-> rounding, ret |-> resInit,
              counted |-> FALSE]
        ELSE IF Len(p.edgeNodes) < 1 THEN cleanup(p.edgeNodes, init, rounding, 1, FALSE)
        ELSE Completed(CompleteEdges([edges |-> p.edgeNodes, calls |-> init, res |-> 0,
                                      failed |-> FALSE, edgeSubnetsNeeded |-> 0],
                                     p.edgeNodeDefaults, 1, failingMac))

\* The edge nodes as the configuration leaves them: the interface (a string on the
\* heap, or NULL), the remote MAC and the virtual subnet of an edge may each be missing.
GivenEdgeLists ==
    LET edge(i, c) ==
            [intf |-> c.intf,
             macSpecified |-> c.macSpecified,
             mac |-> IF c.macSpecified THEN EdgeMac(i) ELSE MacZero,
             vsubnetSpecified |-> c.vsubnetSpecified,
             vsubnet |-> IF c.vsubnetSpecified THEN ip4GetSubnet(AddrSpace \div 2, 1)
                         ELSE ip4GetSubnet(0, 0)]
        choices == [intf : {NULL, [chars |-> "eth1"]}, macSpecified : BOOLEAN,
                    vsubnetSpecified : BOOLEAN]
    IN  UNION {{[i \in 1 .. k |-> edge(i, c[i])] : c \in [1 .. k -> choices]} :
               k \in 0 .. MaxEdgeNodes}

InitSetupInit ==
    /\ params \in [edgeNodes : GivenEdgeLists,
                   edgeNodeDefaults : [intfSpecified : BOOLEAN, intf : {"eth0"},
                                       globalVSubnet : Subnets]]
    /\ ctx = NULL
    /\ fenv = FE_TONEAREST
    /\ calls = <<>>
    /\ setup = [pc |-> "init", ret |-> NULL, given |-> params, counted |-> FALSE]
    /\ doc = <<>>
    /\ lastCallback = NULL
    /\ FragIdle
    /\ IterIdle
    /\ MacIdle
    /\ CapIdle
    /\ ParseIdle

\* The program calls setupInit.
SetupInit ==
    /\ setup.pc = "init"
    /\ \E resInit \in WorkResults : \E failingMac \in 0 .. Len(params.edgeNodes) :
       \E ub \in ShiftOverflowOutcomes :
          \E r \in {setupInit(params, fenv, resInit, failingMac, ub)} :
              /\ params' = r.params
              /\ calls' = r.calls
              /\ fenv' = r.fenv
              /\ setup' = [setup EXCEPT !.pc = "returned", !.ret = r.ret,
                                        !.counted = r.counted]
    /\ UNCHANGED <<ctx, doc, lastCallback, fragVars, iterVars, macVars, capVars,
                   parseVars>>

NextSetupInit == SetupInit

SpecSetupInit == InitSetupInit /\ [][NextSetupInit]_vars

\* The edges (1-based) that came without a virtual subnet, and their virtual subnets
\* after setupInit, in edge order.
Lacking == {i \in 1 .. Len(setup.given.edgeNodes) : ~setup.given.edgeNodes[i].vsubnetSpecified}

LackingAt(k) == CHOOSE i \in Lacking : Cardinality({j \in Lacking : j <= i}) = k

Provisioned == [k \in 1 .. Cardinality(Lacking) |-> params.edgeNodes[LackingAt(k)].vsubnet]

GlobalVSubnet == params.edgeNodeDefaults.globalVSubnet

\* setupInit got as far as providing the subnets: workInit succeeded and an interface
\* and a remote MAC were found for every edge.
EdgesCounted == setup.pc = "returned" /\ setup.counted

\* C27: after a successful setupInit with k > 0 edges lacking a virtual subnet, the
\* i-th such edge, in edge order, holds the i-th of the k fragments of the global
\* client subnet, these k subnets are pairwise disjoint and lie in the global subnet,
\* and the virtual subnet of every edge that specified one is as it was; when the
\* global subnet has fewer than k addresses, setupInit returns nonzero and workCleanup
\* was the last thing it called.
C27_DefaultSubnetsFragmentGlobal ==
    /\ (setup.pc = "returned" /\ setup.ret = 0 /\ Lacking # {}) =>
           /\ PartitionOf(GlobalVSubnet, Cardinality(Lacking), Provisioned)
           /\ \A k \in 1 .. Len(Provisioned) :
                  AddrsOf(Provisioned[k]) \subseteq AddrsOf(GlobalVSubnet)
           /\ \A i \in 1 .. Len(params.edgeNodes) :
                  i \notin Lacking =>
                      params.edgeNodes[i].vsubnet = setup.given.edgeNodes[i].vsubnet
    /\ (EdgesCounted /\ SizeOf(GlobalVSubnet) < Cardinality(Lacking)) =>
           /\ setup.ret # 0
           /\ calls[Len(calls)].op = "workCleanup"
           /\ \A i \in 1 .. Len(params.edgeNodes) :
                  params.edgeNodes[i].vsubnet = setup.given.edgeNodes[i].vsubnet

\* The same wherever the shift of ip4FragmentSubnet is defined, that is, unless the
\* whole address space is the global subnet and a single edge lacks a subnet.
DefaultSubnetsFragmentGlobalWhereDefined ==
    (Lacking # {} => ShiftDefined(GlobalVSubnet, Cardinality(Lacking)))
        => C27_DefaultSubnetsFragmentGlobal

\* ------------------------------------- the edge capacities, computed alone

\* gmlAddLink has divided the client count by the edge count, under the rounding
\* mode setupInit left: FE_DOWNWARD if it fragmented the global subnet.
InitCapacity ==
    /\ capFenv \in {FE_TONEAREST, FE_DOWNWARD}
    /\ \E c \in 1 .. MaxClients : \E e \in 1 .. c :
          capIn = [clientNodes |-> c, edgeNodeCount |-> e,
                   clientsPerEdge |-> DoubleDiv(c, e, capFenv)]
    /\ capOut = <<>>
    /\ FragIdle
    /\ IterIdle
    /\ MacIdle
    /\ SetupIdle
    /\ ParseIdle

\* gmlNextEdge computes the capacity of the next edge and fragments the edge's subnet,
\* which leaves the rounding mode FE_DOWNWARD.
NextEdgeCapacity ==
    /\ Len(capOut) < capIn.edgeNodeCount
    /\ capOut' = Append(capOut, EdgeCapacity(capIn.clientsPerEdge, Len(capOut), capFenv))
    /\ capFenv' = FE_DOWNWARD
    /\ UNCHANGED <<capIn, fragVars, iterVars, macVars, setupVars, parseVars>>

NextCapacity == NextEdgeCapacity

SpecCapacity == InitCapacity /\ [][NextCapacity]_vars

RECURSIVE SumSeq(_)
SumSeq(q) == IF q = <<>> THEN 0 ELSE Head(q) + SumSeq(Tail(q))

\* C3: for C >= E >= 1 the capacities of the edges 0..E-1 sum to exactly C, every edge
\* has room for at least one client, and the edges before the last never hold them all.
C3_CapacitiesSumToClients ==
    /\ \A i \in 1 .. Len(capOut) : capOut[i] >= 1
    /\ Len(capOut) < capIn.edgeNodeCount => SumSeq(capOut) < capIn.clientNodes
    /\ Len(capOut) = capIn.edgeNodeCount => SumSeq(capOut) = capIn.clientNodes

\* All capacities computed for 7 clients on 6 edges, where the products are inexact.
C3_Witness ==
    /\ capIn.clientNodes = 7
    /\ capIn.edgeNodeCount = 6
    /\ Len(capOut) = 6
    /\ SumSeq(capOut) = 7

\* ------------------------------------- setupGraphML on topologies of clients

\* The runs that reach the assignment loop: a file read in one pass, holding up to
\* MaxAssignNodes nodes with ids of their own and then links; every worker call before
\* the loop succeeds. The edges fragment the same virtual subnet, or the first a
\* smaller one; setupInit leaves either rounding mode.
AssignNames == <<"a", "b", "c", "d", "e", "f", "g">>

AssignSubnets == <<ip4GetSubnet(AddrSpace \div 2, 2), ip4GetSubnet(AddrSpace \div 2, 3)>>

AssignEdgeLists ==
    {[i \in 1 .. k |-> [intf |-> IF i = 1 THEN "eth0" ELSE intf,
                        vsubnet |-> AssignSubnets[IF i = 1 THEN first ELSE 1],
                        mac |-> EdgeMac(i)]] :
        k \in 1 .. MaxAssignEdges, intf \in Intfs, first \in 1 .. 2}

\* The node the document holds next: its id is new.
AssignNodeRecords ==
    IF ctx.nodeCount < MaxAssignNodes
    THEN {[name |-> AssignNames[ctx.nodeCount + 1], client |-> c] : c \in BOOLEAN}
    ELSE {}

AssignLinkRecords ==
    {[sourceName |-> "a", targetName |-> "a", weight |-> 1],
     [sourceName |-> "a", targetName |-> "b", weight |-> 1]}

InitAssign ==
    /\ params \in [edgeNodes : AssignEdgeLists, srcFile : {TRUE}, twoPass : {FALSE}]
    /\ ctx = NewContext(params)
    /\ fenv \in {FE_TONEAREST, FE_DOWNWARD}
    /\ calls = <<>>
    /\ setup = NewSetup(params)
    /\ doc = <<>>
    /\ lastCallback = NULL
    /\ FragIdle
    /\ IterIdle
    /\ MacIdle
    /\ CapIdle
    /\ ParseIdle

NextAssign ==
    \/ AddRootOn({0})
    \/ AddEdgeInterfaceOn({0})
    \/ OpenInput
    \/ NodeCallbackOn(AssignNodeRecords, {0}, MaxAssignNodes + 1)
    \/ LinkCallbackOn(AssignLinkRecords, {0}, MaxAssignNodes + 1)
    \/ ParseReturnOn({0})
    \/ PlanRoutes
    \/ AssignClient
    \/ RoutePair
    \/ Cleanup

SpecAssign == InitAssign /\ [][NextAssign]_vars

\* The workAddClientRoutes calls made so far, and those made for the edge of index e.
ClientRoutesCalls == {k \in 1 .. Len(calls) : calls[k].op = "workAddClientRoutes"}

AssignedTo(e) == Cardinality({k \in ClientRoutesCalls : calls[k].edge = e})

\* Every client of the topology has been handed its subnet.
AllClientsServed ==
    /\ ctx.routes # NULL
    /\ Cardinality(ClientRoutesCalls) = ctx.clientNodes

EdgeIndexes == 0 .. (Len(params.edgeNodes) - 1)

FloorShare == ctx.clientNodes \div Len(params.edgeNodes)

CeilShare == (ctx.clientNodes + Len(params.edgeNodes) - 1) \div Len(params.edgeNodes)

\* C4: with C clients on E edges, C >= E >= 1, no edge is ever handed more than
\* ceil(C/E) client subnets; an edge the assignment has left behind, and every edge
\* once all clients are served, has been handed at least floor(C/E).
C4_EdgeSharesFloorOrCeil ==
    ctx.clientNodes >= Len(params.edgeNodes) =>
        \A e \in EdgeIndexes :
            /\ AssignedTo(e) <= CeilShare
            /\ (AllClientsServed \/ (ClientRoutesCalls # {} /\ e < ctx.currentEdgeIdx))
                   => AssignedTo(e) >= FloorShare

\* Five clients on three edges, all served: the shares are 2, 1 and 2.
C4_Witness ==
    /\ Len(params.edgeNodes) = 3
    /\ ctx.clientNodes = 5
    /\ AllClientsServed
    /\ AssignedTo(0) = 2
    /\ AssignedTo(1) = 1
    /\ AssignedTo(2) = 2

ClientSubnetOf(k) == calls[k].subnet

EdgeOf(k) == params.edgeNodes[calls[k].edge + 1]

\* C33: the subnet of every client lies within the virtual subnet of the edge whose
\* port its workAddClientRoutes call is given, the clients of one edge have pairwise
\* disjoint subnets, and the edge index does not decrease as the client id increases.
C33_ClientSubnetsSliceEdges ==
    /\ \A k \in ClientRoutesCalls :
           /\ WellFormedSubnet(ClientSubnetOf(k))
           /\ AddrsOf(ClientSubnetOf(k)) \subseteq AddrsOf(EdgeOf(k).vsubnet)
           /\ calls[k].port = setup.edgePorts[calls[k].edge + 1]
    /\ \A k, l \in ClientRoutesCalls :
           k < l => /\ calls[k].id < calls[l].id
                    /\ calls[k].edge <= calls[l].edge
                    /\ calls[k].edge = calls[l].edge =>
                           AddrsOf(ClientSubnetOf(k)) \cap AddrsOf(ClientSubnetOf(l)) = {}

\* Two clients share the first edge and a third is on the second.
C33_Witness ==
    /\ Len(params.edgeNodes) >= 2
    /\ AssignedTo(0) >= 2
    /\ AssignedTo(1) >= 1

\* The calls of ip4FragmentSubnet on an edge whose virtual subnet holds fewer addresses
\* than the capacity of the edge: those that return NULL.
TooSmallFragmentings ==
    {k \in CallsOf({"ip4FragmentSubnet"}) :
        ip4SubnetSize(params.edgeNodes[calls[k].edge + 1].vsubnet, FALSE) < calls[k].count}

\* C32: when the virtual subnet of an edge holds fewer addresses than the capacity of
\* the edge, the NULL that ip4FragmentSubnet returns is not dereferenced, the process
\* lives on and setupGraphML returns a nonzero value.
C32_SmallEdgeSubnetReported ==
    TooSmallFragmentings # {} =>
        /\ setup.pc # "crashed"
        /\ setup.pc = "done" => setup.ret # 0

\* ------------------------------------------------- route emission on topologies

\* The node the document holds next: its id is new.
RouteNodeRecords ==
    IF ctx.nodeCount < MaxRouteNodes
    THEN {[name |-> AssignNames[ctx.nodeCount + 1], client |-> c] : c \in BOOLEAN}
    ELSE {}

\* Links among the first three nodes, of weight 1 or 3.
RouteLinkRecords ==
    {[sourceName |-> e[1], targetName |-> e[2], weight |-> w] :
        e \in {<<"a", "b">>, <<"b", "c">>, <<"c", "a">>}, w \in {1, 3}}

InitRoutes ==
    /\ params \in [edgeNodes : {l \in AssignEdgeLists : Len(l) = 1},
                   srcFile : {TRUE}, twoPass : {FALSE}]
    /\ ctx = NewContext(params)
    /\ fenv = FE_TONEAREST
    /\ calls = <<>>
    /\ setup = NewSetup(params)
    /\ doc = <<>>
    /\ lastCallback = NULL
    /\ FragIdle
    /\ IterIdle
    /\ MacIdle
    /\ CapIdle
    /\ ParseIdle

NextRoutes ==
    \/ AddRootOn({0})
    \/ AddEdgeInterfaceOn({0})
    \/ OpenInput
    \/ NodeCallbackOn(RouteNodeRecords, {0}, MaxRouteNodes + MaxRouteLinks)
    \/ LinkCallbackOn(RouteLinkRecords, {0}, MaxRouteNodes + MaxRouteLinks)
    \/ ParseReturnOn({0})
    \/ PlanRoutes
    \/ AssignClient
    \/ RoutePair
    \/ Cleanup

SpecRoutes == InitRoutes /\ [][NextRoutes]_vars

\* The route requests and hop installations made so far, in order.
RouteLog == SelectSeq(calls, LAMBDA c : c.op \in {"rpGetRoute", "workAddInternalRoutes"})

Requests == {k \in 1 .. Len(RouteLog) : RouteLog[k].op = "rpGetRoute"}

IsClient(id) == ctx.nodeStates[id + 1].isClient

ClientPairs ==
    {p \in (0 .. (ctx.nodeCount - 1)) \X (0 .. (ctx.nodeCount - 1)) :
        p[1] < p[2] /\ IsClient(p[1]) /\ IsClient(p[2])}

PairOf(k) == <<RouteLog[k].start, RouteLog[k].end>>

LexLess(p, q) == p[1] < q[1] \/ (p[1] = q[1] /\ p[2] < q[2])

\* The hop installations that follow request k, up to the next request.
HopsAfter(k) ==
    LET later == {j \in Requests : j > k}
        stop == IF later = {} THEN Len(RouteLog) + 1
                ELSE CHOOSE j \in later : \A l \in later : j <= l
    IN  SubSeq(RouteLog, k + 1, stop - 1)

\* What the hops of path p from s to t are installed with.
HopsOf(p, s, t) ==
    [i \in 1 .. (Len(p) - 1) |->
        [op |-> "workAddInternalRoutes",
         prevId |-> p[i], nextId |-> p[i + 1],
         prevAddr |-> ctx.nodeStates[p[i] + 1].addr,
         nextAddr |-> ctx.nodeStates[p[i + 1] + 1].addr,
         startSubnet |-> ctx.nodeStates[s + 1].clientSubnet,
         endSubnet |-> ctx.nodeStates[t + 1].clientSubnet]]

\* C15: when the route loops have run to their end, a route has been requested for
\* exactly the pairs of clients (s, t) with s < t, in lexicographic order, and
\* workAddInternalRoutes has been called for nothing but the hops of the routes
\* returned: after the request for (s, t), once per consecutive hop of the path, in
\* path order, with the interface addresses of the two hop nodes and the client
\* subnets of s and t; none for a pair without a route.
C15_RouteEmission ==
    setup.completed =>
        /\ {PairOf(k) : k \in Requests} = ClientPairs
        /\ \A k, l \in Requests : k < l => LexLess(PairOf(k), PairOf(l))
        /\ RouteLog # <<>> => 1 \in Requests
        /\ \A k \in Requests :
              LET paths == rpGetRoute(ctx.routes, PairOf(k)[1], PairOf(k)[2])
              IN  IF paths = {} THEN HopsAfter(k) = <<>>
                  ELSE \E p \in paths :
                          /\ Len(p) >= 2
                          /\ HopsAfter(k) = HopsOf(p, PairOf(k)[1], PairOf(k)[2])

\* The requests that found no route.
Unroutable == {k \in Requests : rpGetRoute(ctx.routes, PairOf(k)[1], PairOf(k)[2]) = {}}

Warnings == {k \in 1 .. Len(calls) : calls[k].op = "lprintf" /\ calls[k].level = "LogWarning"}

\* C16: the unroutable warning is logged once when some requested pair has no route
\* and never a second time; no workAddInternalRoutes call follows the request of a
\* pair without a route; and a run in which nothing else went wrong still requests
\* every client pair and returns 0.
C16_UnroutableNotFatal ==
    /\ Cardinality(Warnings) = (IF Unroutable = {} THEN 0 ELSE 1)
    /\ \A k \in Unroutable : HopsAfter(k) = <<>>
    /\ (setup.pc = "done" /\ Unroutable # {} /\ ~setup.failed) =>
           /\ setup.ret = 0
           /\ {PairOf(k) : k \in Requests} = ClientPairs

\* Three clients of which only two are linked: two pairs without a route, one warning,
\* one hop installed after them, and the run has returned 0.
C16_Witness ==
    /\ setup.pc = "done"
    /\ setup.ret = 0
    /\ Cardinality(Unroutable) = 2
    /\ Cardinality(Warnings) = 1
    /\ \E k \in Requests : \E u \in Unroutable : u < k /\ Len(HopsAfter(k)) = 1

\* The loops have run over three clients, one pair of which is routed through the
\* third node.
C15_Witness ==
    /\ setup.completed
    /\ Cardinality(ClientPairs) = 3
    /\ \E k \in Requests : Len(HopsAfter(k)) = 2

\* ------------------------------------------------- the parser on documents

\* The document is read as libxml reports it: a well-nested sequence of start
\* element, end element and characters events. `xml` keeps, beside the open elements,
\* what a reader of the element tree knows without the parser: the role of each open
\* element (by its name and the role of its parent), the keys declared, whether the
\* document is still within the recognized subset, and the records of the <node> and
\* <edge> children of the graph closed so far, with the values of their <data> children.
KeyDecls ==
    {[name |-> "type", id |-> "k0", type |-> "string", for |-> "node"],
     [name |-> "packetloss", id |-> "k1", type |-> "double", for |-> "node"],
     [name |-> "latency", id |-> "k2", type |-> "double", for |-> "edge"],
     [name |-> "queue_len", id |-> "k3", type |-> "int", for |-> "edge"],
     [name |-> "packetloss", id |-> "k1", type |-> "string", for |-> "node"]}

KeyAtts(decl) ==
    [n \in {"attr.name", "id", "attr.type", "for"} |->
        IF n = "attr.name" THEN decl.name
        ELSE IF n = "id" THEN decl.id
        ELSE IF n = "attr.type" THEN decl.type
        ELSE decl.for]

Element(name, atts) == [name |-> name, atts |-> atts]

\* The role of an element named `name` whose parent has role `parent` ("" for the
\* root element).
RoleOf(parent, name) ==
    IF parent = "" THEN (IF name = "graphml" THEN "graphml" ELSE "unknown")
    ELSE IF parent = "graphml" /\ name \in {"key", "graph"} THEN name
    ELSE IF parent = "graph" /\ name \in {"node", "edge"} THEN name
    ELSE IF parent \in {"node", "edge"} /\ name = "data" THEN "data"
    ELSE "unknown"

\* The elements the document may open under a parent of the given role; once it has
\* left the recognized subset, whatever follows is read as any element is.
ElementsAt(parent) ==
    IF ~xml.subset THEN {Element("desc", <<>>), Element("node", [id |-> "b"])}
    ELSE IF parent = ""
    THEN {Element("graphml", [xmlns |-> GraphmlNamespace]),
          Element("graphml", [xmlns |-> "urn:other"])}
    ELSE IF parent = "graphml"
    THEN {Element("key", KeyAtts(decl)) : decl \in KeyDecls}
         \cup {Element("graph", [edgedefault |-> "undirected"]),
               Element("graph", <<>>),
               Element("desc", <<>>)}
    ELSE IF parent = "graph"
    THEN {Element("node", [id |-> "a"]),
          Element("node", [id |-> "b"]),
          Element("node", <<>>),
          Element("edge", [source |-> "a", target |-> "b"]),
          Element("edge", [source |-> "a", target |-> "b", directed |-> "false"]),
          Element("edge", [source |-> "a"]),
          Element("desc", <<>>)}
    ELSE IF parent \in {"node", "edge"}
    THEN {Element("data", [key |-> k]) : k \in {"k0", "k1", "k2", "k3"}}
         \cup {Element("data", <<>>), Element("desc", <<>>)}
    ELSE {Element("desc", <<>>), Element("node", [id |-> "b"])}

ParentRole == IF xml.stack = <<>> THEN "" ELSE xml.stack[Len(xml.stack)].role

\* The graph element an open <edge> is a child of gives the default direction.
UndirectedEdge(atts) ==
    IF "directed" \in DOMAIN atts THEN atts["directed"] = "false"
    ELSE LET graph == xml.stack[Len(xml.stack)].atts
         IN  "edgedefault" \in DOMAIN graph /\ graph["edgedefault"] = "undirected"

\* Whether the element takes the document out of the recognized subset.
Unrecognized(role, el) ==
    \/ xml.stack = <<>> /\ (role # "graphml" \/ el.atts["xmlns"] # GraphmlNamespace)
    \/ /\ role = "key"
       /\ \/ xml.seenGraph
          \/ el.atts["for"] = "node"
               /\ TypeClass(el.atts["attr.type"]) \notin NodeKeys[el.atts["attr.name"]].accept
          \/ el.atts["for"] = "edge"
               /\ TypeClass(el.atts["attr.type"]) \notin EdgeKeys[el.atts["attr.name"]].accept
    \/ role = "node" /\ "id" \notin DOMAIN el.atts
    \/ role = "edge" /\ ("source" \notin DOMAIN el.atts \/ "target" \notin DOMAIN el.atts
                          \/ ~UndirectedEdge(el.atts))
    \/ role = "data" /\ "key" \notin DOMAIN el.atts

\* The registry of keys: the id declared for "node.type", "edge.latency", ...
DeclareKey(keys, atts) ==
    LET attr == atts["for"] \o "." \o atts["attr.name"]
    IN  [a \in (DOMAIN keys) \cup {attr} |-> IF a = attr THEN atts["id"] ELSE keys[a]]

InitParse ==
    /\ \E clientType \in {NULL, xmlStrdup("client"), xmlStrdup("1")} :
          gp = initGraphParserState(clientType)
    /\ xml = [stack |-> <<>>, keys |-> <<>>, seenGraph |-> FALSE, closed |-> FALSE,
              subset |-> TRUE, expected |-> <<>>, elements |-> 0, pieces |-> 0]
    /\ delivered = <<>>
    /\ FragIdle
    /\ IterIdle
    /\ MacIdle
    /\ CapIdle
    /\ SetupIdle

\* libxml reports a start tag.
StartElement ==
    /\ ~gp.killed
    /\ ~xml.closed
    /\ xml.elements < MaxElements
    /\ Len(xml.stack) < MaxXmlDepth
    /\ \E el \in ElementsAt(ParentRole) :
          LET role == RoleOf(ParentRole, el.name)
          IN  /\ gp' = graphStartElement(gp, el.name, el.atts)
              /\ xml' = [xml EXCEPT
                           !.stack = Append(@, [name |-> el.name, role |-> role,
                                                atts |-> el.atts, text |-> <<>>,
                                                data |-> <<>>]),
                           !.keys = IF role = "key" /\ ~Unrecognized(role, el)
                                    THEN DeclareKey(@, el.atts) ELSE @,
                           !.seenGraph = @ \/ role = "graph",
                           !.subset = @ /\ ~Unrecognized(role, el),
                           !.elements = @ + 1]
    /\ delivered' = delivered
    /\ UNCHANGED <<fragVars, iterVars, macVars, capVars, setupVars>>

\* The value the <data> children of an element give the attribute `attr`: that of
\* the last child whose key is the id declared for it.
DataOf(entry, attr) ==
    IF attr \in DOMAIN xml.keys /\ xml.keys[attr] \in DOMAIN entry.data
    THEN entry.data[xml.keys[attr]] ELSE <<>>

HasData(entry, attr) == attr \in DOMAIN xml.keys /\ xml.keys[attr] \in DOMAIN entry.data

\* The record of a closed <node> or <edge> child of the graph, from the element alone.
RecordOf(entry) ==
    IF entry.role = "node"
    THEN [kind |-> "node",
          typed |-> HasData(entry, "node.type"),
          record |-> [Id |-> entry.atts["id"],
                      PacketLoss |-> strtod(DataOf(entry, "node.packetloss")),
                      BandwidthUp |-> strtod(DataOf(entry, "node.bandwidthup")),
                      BandwidthDown |-> strtod(DataOf(entry, "node.bandwidthdown"))]]
    ELSE [kind |-> "link",
          record |-> [SourceId |-> entry.atts["source"],
                      TargetId |-> entry.atts["target"],
                      Latency |-> strtod(DataOf(entry, "edge.latency")),
                      PacketLoss |-> strtod(DataOf(entry, "edge.packetloss")),
                      Jitter |-> strtod(DataOf(entry, "edge.jitter")),
                      QueueLen |-> strtoul(DataOf(entry, "edge.queue_len"))]]

\* The open elements after the innermost is closed: a <data> child hands its text
\* to the <node> or <edge> it is a child of.
CloseInnermost(stack) ==
    LET top == stack[Len(stack)]
        rest == SubSeq(stack, 1, Len(stack) - 1)
    IN  IF top.role = "data" /\ "key" \in DOMAIN top.atts
        THEN [rest EXCEPT ![Len(rest)].data =
                 [k \in (DOMAIN @) \cup {top.atts["key"]} |->
                     IF k = top.atts["key"] THEN top.text ELSE @[k]]]
        ELSE rest

\* libxml reports an end tag.
EndElement ==
    /\ ~gp.killed
    /\ xml.stack # <<>>
    /\ \E ub \in HeapOverflowOutcomes : \E r \in {graphEndElement(gp, ub)} :
          /\ gp' = r.state
          /\ delivered' = IF r.callback = NULL THEN delivered
                          ELSE Append(delivered, r.callback)
    /\ LET top == xml.stack[Len(xml.stack)]
       IN  xml' = [xml EXCEPT
                     !.stack = CloseInnermost(@),
                     !.closed = Len(xml.stack) = 1,
                     !.expected = IF top.role \in {"node", "edge"} /\ xml.subset
                                  THEN Append(@, RecordOf(top)) ELSE @]
    /\ UNCHANGED <<fragVars, iterVars, macVars, capVars, setupVars>>

\* libxml reports character data: inside a <data> child any piece, elsewhere a digit.
Characters ==
    /\ ~gp.killed
    /\ xml.stack # <<>>
    /\ xml.pieces < MaxPieces
    /\ LET top == xml.stack[Len(xml.stack)]
       IN  \E ch \in (IF top.role = "data" /\ xml.subset THEN Pieces ELSE {"1"}) :
              /\ gp' = graphCharacters(gp, ch, PieceLen(ch))
              /\ xml' = [xml EXCEPT
                           !.stack[Len(xml.stack)].text =
                               IF top.role = "data" THEN Append(@, ch) ELSE @,
                           !.pieces = @ + 1]
    /\ delivered' = delivered
    /\ UNCHANGED <<fragVars, iterVars, macVars, capVars, setupVars>>

NextParse ==
    \/ StartElement
    \/ EndElement
    \/ Characters

SpecParse == InitParse /\ [][NextParse]_vars

\* The client flag a node without a type value is delivered with.
DefaultClient == gp.clientType = NULL

\* The record delivered carries what the element holds. The client flag of a node
\* with a type value is left to the comparison with the client type.
Carries(got, want) ==
    /\ got.kind = want.kind
    /\ IF want.kind = "node"
       THEN /\ got.record.Id = want.record.Id
            /\ got.record.PacketLoss = want.record.PacketLoss
            /\ got.record.BandwidthUp = want.record.BandwidthUp
            /\ got.record.BandwidthDown = want.record.BandwidthDown
            /\ ~want.typed => got.record.Client = DefaultClient
       ELSE got.record = want.record

DeliveredAsExpected ==
    /\ Len(delivered) = Len(xml.expected)
    /\ \A i \in 1 .. Len(delivered) : Carries(delivered[i], xml.expected[i])

CallbackPerElementUnlessKilled ==
    (xml.subset /\ ~gp.killed) => (~gp.dead /\ DeliveredAsExpected)
\* C17: once the dead flag is set, no start-element, end-element or characters event
\* changes the parser state (the flag itself, the mode, the unknown depth, the data
\* buffer, the pending node and link records) or invokes a callback.
C17_DeadParserIgnoresEvents == [][gp.dead => (gp' = gp /\ delivered' = delivered)]_vars

\* A <data> element without a key has killed the parse, and the character data that
\* followed in it has left the data buffer empty.
C17_Witness ==
    /\ gp.dead
    /\ gp.mode = "GpData"
    /\ gp.dataValueLen = 0
    /\ xml.stack # <<>>
    /\ xml.stack[Len(xml.stack)].role = "data"
    /\ xml.stack[Len(xml.stack)].text # <<>>

\* A start tag has been reported to a live parser for an <edge> child of a graph that
\* has a source and a target.
EdgeStartStep ==
    /\ ~gp.dead
    /\ Len(xml'.stack) = Len(xml.stack) + 1
    /\ xml'.stack[Len(xml'.stack)].role = "edge"
    /\ {"source", "target"} \subseteq DOMAIN xml'.stack[Len(xml'.stack)].atts

\* An end tag has been reported to a live parser for an <edge> child of a graph.
EdgeEndStep ==
    /\ ~gp.dead
    /\ ~gp'.killed
    /\ Len(xml'.stack) = Len(xml.stack) - 1
    /\ xml.stack[Len(xml.stack)].role = "edge"

\* The edge carries directed="false", or no directed attribute inside a graph that
\* declared edgedefault="undirected".
DeclaredUndirected(edge, graph) ==
    IF "directed" \in DOMAIN edge THEN edge["directed"] = "false"
    ELSE "edgedefault" \in DOMAIN graph /\ graph["edgedefault"] = "undirected"

\* The same with the default of the last graph that declared one.
UndirectedByLastDefault(edge) ==
    IF "directed" \in DOMAIN edge THEN edge["directed"] = "false"
    ELSE gp.defaultUndirected

\* The parser enters Edge mode, and on the end tag of an edge in Edge mode invokes the
\* link callback with its source and target.
EdgeAccepted(accepted) ==
    /\ EdgeStartStep =>
          IF accepted THEN gp'.mode = "GpEdge" /\ ~gp'.dead
          ELSE gp'.mode # "GpEdge" /\ gp'.dead /\ delivered' = delivered
    /\ (EdgeEndStep /\ gp.mode = "GpEdge") =>
          /\ Len(delivered') = Len(delivered) + 1
          /\ delivered'[Len(delivered')].kind = "link"
          /\ delivered'[Len(delivered')].record.SourceId = xml.stack[Len(xml.stack)].atts["source"]
          /\ delivered'[Len(delivered')].record.TargetId = xml.stack[Len(xml.stack)].atts["target"]

\* C18: an <edge> child of a graph with source and target enters Edge mode, and its
\* end tag then invokes the link callback, if and only if it carries directed="false"
\* or it carries no directed attribute and the enclosing graph declared
\* edgedefault="undirected"; any other such edge is a fatal error and invokes no
\* callback.
C18_UndirectedEdgesOnly ==
    [][EdgeAccepted(DeclaredUndirected(xml'.stack[Len(xml'.stack)].atts,
                                       xml.stack[Len(xml.stack)].atts))]_vars

\* What the parser does: the default is that of the last graph that declared one.
EdgesFollowLastDefault ==
    [][EdgeAccepted(UndirectedByLastDefault(xml'.stack[Len(xml'.stack)].atts))]_vars

\* The text of a data value read in pieces.
RECURSIVE TextOf(_)
TextOf(pieces) == IF pieces = <<>> THEN "" ELSE Head(pieces) \o TextOf(Tail(pieces))

\* The end tag of a <node> of a document within the recognized subset has invoked
\* the node callback.
NodeDeliveredStep ==
    /\ xml.subset
    /\ xml.stack # <<>>
    /\ xml.stack[Len(xml.stack)].role = "node"
    /\ Len(xml'.stack) = Len(xml.stack) - 1
    /\ Len(delivered') = Len(delivered) + 1

DeliveredClient == delivered'[Len(delivered')].record.Client

\* C19: the client flag of a delivered node record is true if and only if no client
\* type is configured, or one is configured and the node has a `type` data value
\* equal to it.
C19_ClientFlag ==
    [][NodeDeliveredStep =>
          (DeliveredClient <=>
              \/ gp.clientType = NULL
              \/ /\ HasData(xml.stack[Len(xml.stack)], "node.type")
                 /\ TextOf(DataOf(xml.stack[Len(xml.stack)], "node.type"))
                        = gp.clientType.chars)]_vars

\* What the parser does: a node with a `type` data value is a client when the value
\* is the literal "client", whatever client type is configured; a node without one
\* is a client when no client type is configured.
ClientFlagFollowsLiteral ==
    [][NodeDeliveredStep =>
          (DeliveredClient <=>
              IF HasData(xml.stack[Len(xml.stack)], "node.type")
              THEN TextOf(DataOf(xml.stack[Len(xml.stack)], "node.type")) = "client"
              ELSE gp.clientType = NULL)]_vars

\* The mode the parser has inside an open element of the given role.
ModeIn(role) ==
    IF role = "graphml" THEN "GpTopLevel"
    ELSE IF role = "graph" THEN "GpGraph"
    ELSE IF role = "node" THEN "GpNode"
    ELSE IF role = "edge" THEN "GpEdge"
    ELSE "GpData"

\* The open elements the parser skips: unrecognized ones and <key>, with all that
\* is open inside them.
Skipped == {k \in 1 .. Len(xml.stack) : xml.stack[k].role \in {"unknown", "key"}}

\* While the parser lives, its mode is the one of the innermost open element, unless
\* an unrecognized element (or <key>) is open: then it is in Unknown mode, remembers
\* the mode of the parent of the outermost such element, and its depth counts the
\* elements open inside that one, so that the matching end tag finds depth 0 and
\* restores the remembered mode.
UnknownBalanced ==
    (~gp.dead /\ ~gp.killed /\ xml.stack # <<>>) =>
        IF Skipped = {} THEN gp.mode = ModeIn(xml.stack[Len(xml.stack)].role)
        ELSE LET outer == CHOOSE k \in Skipped : \A l \in Skipped : k <= l
             IN  /\ gp.mode = "GpUnknown"
                 /\ gp.unknownDepth = Len(xml.stack) - outer
                 /\ gp.unknownMode = ModeIn(xml.stack[outer - 1].role)

\* What the parser holds of the element being read.
Pending(state) ==
    <<state.node, state.link, state.dataKey, state.dataMode,
      TakeBytes(state.dataValue, state.dataValueLen), state.dataValueLen>>

\* A live parser in one of the five modes is given the start tag of an unrecognized
\* element.
UnrecognizedStartStep ==
    /\ ~gp.dead
    /\ gp.mode \in {"GpTopLevel", "GpGraph", "GpNode", "GpEdge", "GpData"}
    /\ Len(xml'.stack) = Len(xml.stack) + 1
    /\ xml'.stack[Len(xml'.stack)].role = "unknown"

\* Any event given to a live parser in Unknown mode with an element open.
InUnknownStep == ~gp.dead /\ gp.mode = "GpUnknown" /\ xml.stack # <<>>

\* C28: an unrecognized start element met in TopLevel, Graph, Node, Edge or Data mode
\* puts the parser in Unknown mode; however deep its children nest, the matching end
\* tag puts the parser back in the mode it had; the pending node or link record, the
\* data key and the accumulated data value are the same throughout, no callback is
\* invoked and no character data is accumulated in Unknown mode.
C28_UnknownElementsSkipped ==
    /\ []UnknownBalanced
    /\ [][UnrecognizedStartStep =>
             /\ gp'.mode = "GpUnknown"
             /\ gp'.unknownMode = gp.mode
             /\ gp'.unknownDepth = 0
             /\ Pending(gp') = Pending(gp)
             /\ delivered' = delivered]_vars
    /\ [][InUnknownStep =>
             /\ gp'.mode \in {"GpUnknown", gp.unknownMode}
             /\ gp'.unknownMode = gp.unknownMode
             /\ Pending(gp') = Pending(gp)
             /\ delivered' = delivered]_vars

\* The parser is back in the <data> element of a node after an unrecognized child
\* of it, with the characters read before that child still accumulated.
C28_Witness ==
    /\ ~gp.dead
    /\ ~gp.killed
    /\ gp.mode = "GpData"
    /\ ToString(gp.unknownMode) = ToString("GpData")
    /\ gp.dataMode = "GpNode"
    /\ gp.dataValueLen > 0
    /\ xml.stack # <<>>
    /\ xml.stack[Len(xml.stack)].role = "data"
    /\ xml.stack[Len(xml.stack)].text # <<>>

\* Whether the characters spell a number and nothing else: digits, for a float
\* optionally with a fraction, at least one digit in all.
WellFormedNumber(cs, integer) ==
    LET whole == LeadingDigits(cs)
        rest == SubSeq(cs, Len(whole) + 1, Len(cs))
        frac == IF rest # <<>> /\ Head(rest) = "." THEN LeadingDigits(Tail(rest)) ELSE <<>>
    IN  IF integer THEN whole # <<>> /\ rest = <<>>
        ELSE \/ whole # <<>> /\ rest = <<>>
             \/ frac # <<>> /\ Len(rest) = Len(frac) + 1

\* The <data> element being closed gives a value to a numeric attribute of the node
\* or edge it is a child of.
NumericData(state) ==
    \/ /\ state.dataMode = "GpNode"
       /\ ~IsKey(state, state.nodeAttribs.typeId)
       /\ \/ IsKey(state, state.nodeAttribs.packetLossId)
          \/ IsKey(state, state.nodeAttribs.bandwidthUpId)
          \/ IsKey(state, state.nodeAttribs.bandwidthDownId)
    \/ /\ state.dataMode = "GpEdge"
       /\ \/ IsKey(state, state.edgeAttribs.latencyId)
          \/ IsKey(state, state.edgeAttribs.packetLossId)
          \/ IsKey(state, state.edgeAttribs.jitterId)
          \/ IsKey(state, state.edgeAttribs.queueLenId)

IntegerData(state) ==
    /\ state.dataMode = "GpEdge"
    /\ ~IsKey(state, state.edgeAttribs.latencyId)
    /\ ~IsKey(state, state.edgeAttribs.packetLossId)
    /\ ~IsKey(state, state.edgeAttribs.jitterId)

\* A live parser is given the end tag of a <data> element whose key names a numeric
\* attribute and whose value is not a number.
MalformedNumberStep ==
    /\ ~gp.dead
    /\ ~gp.killed
    /\ ~gp'.killed
    /\ gp.mode = "GpData"
    /\ Len(xml'.stack) = Len(xml.stack) - 1
    /\ NumericData(gp)
    /\ ~WellFormedNumber(Flatten(TakeBytes(gp.dataValue, gp.dataValueLen)), IntegerData(gp))

\* C29: a <data> value for a recognized numeric attribute that is not a well-formed
\* numeric literal is a fatal parse error: the end tag of the <data> element sets the
\* dead flag, so that the node or link is not delivered with a value put in its place.
C29_MalformedNumberFatal == [][MalformedNumberStep => gp'.dead]_vars

====
